---- MODULE Spec2Model ----
(***************************************************************************)
(* The four dictionary engines of WillianSilva51/Dictionary as one state   *)
(* machine: the AVL tree, the red-black tree, the separate-chaining hash   *)
(* table and the open-addressing hash table.  A behaviour constructs one   *)
(* engine and then applies the operations of the Dictionary interface to   *)
(* it, one call per step.                                                  *)
(***************************************************************************)
EXTENDS Integers, Sequences, FiniteSets, TLC

(***************************************************************************)
(* Bounds of the model.                                                    *)
(***************************************************************************)
MaxKey == 4

MaxVal == 1

DefaultValue == 0

Keys == 1..MaxKey

Values == 0..MaxVal

Max(a, b) == IF a > b THEN a ELSE b

(***************************************************************************)
(* std::pair<Key, Value> is the tuple <<first, second>>.                   *)
(***************************************************************************)
PairLess(a, b) == a[1] < b[1] \/ (a[1] = b[1] /\ a[2] < b[2])

(***************************************************************************)
(* AVL tree (include/dictionary/avl_tree/AVLTree.hpp).  A node pointer is  *)
(* either nullptr or the node it owns; the recursive member functions      *)
(* return the new root of the subtree they were given, as in the source.   *)
(***************************************************************************)
nullptr == [null |-> TRUE]

Node(kv, h, l, r) == [key |-> kv, height |-> h, left |-> l, right |-> r]

height(node) == IF node = nullptr THEN 0 ELSE node.height

updateHeight(node) == 1 + Max(height(node.left), height(node.right))

balance(node) == height(node.right) - height(node.left)

\* rightRotation that leaves the height of p as it was.
AVL_rightRotation_stale(p) ==
    LET aux == p.left
        a1  == [aux EXCEPT !.right = [p EXCEPT !.left = aux.right]]
    IN  [a1 EXCEPT !.height = updateHeight(a1)]

AVL_rightRotation(p) ==
    LET aux == p.left
        p1  == [p EXCEPT !.left = aux.right]
        p2  == [p1 EXCEPT !.height = updateHeight(p1)]
        a1  == [aux EXCEPT !.right = p2]
    IN  [a1 EXCEPT !.height = updateHeight(a1)]

\* leftRotation that hangs p on the right of its right child.
AVL_leftRotation_right(p) ==
    LET aux == p.right
        p1  == [p EXCEPT !.right = aux.left]
        p2  == [p1 EXCEPT !.height = updateHeight(p1)]
        a1  == [aux EXCEPT !.left = aux.right, !.right = p2]
    IN  [a1 EXCEPT !.height = updateHeight(a1)]

AVL_leftRotation(p) ==
    LET aux == p.right
        p1  == [p EXCEPT !.right = aux.left]
        p2  == [p1 EXCEPT !.height = updateHeight(p1)]
        a1  == [aux EXCEPT !.left = p2]
    IN  [a1 EXCEPT !.height = updateHeight(a1)]

\* fixup_node that answers every balance of -2 or 2 with one rotation of p.
AVL_fixup_node_single(p0) ==
    LET p   == [p0 EXCEPT !.height = updateHeight(p0)]
        bal == balance(p)
    IN  IF bal = -2 THEN AVL_rightRotation(p)
        ELSE IF bal = 2 THEN AVL_leftRotation(p)
        ELSE p

AVL_fixup_node(p0) ==
    LET p   == [p0 EXCEPT !.height = updateHeight(p0)]
        bal == balance(p)
    IN  IF bal = -2 /\ height(p.left.left) > height(p.left.right)
          THEN AVL_rightRotation(p)
        ELSE IF bal = -2 /\ height(p.left.left) < height(p.left.right)
          THEN AVL_rightRotation([p EXCEPT !.left = AVL_leftRotation(p.left)])
        ELSE IF bal = 2 /\ height(p.right.right) > height(p.right.left)
          THEN AVL_leftRotation(p)
        ELSE IF bal = 2 /\ height(p.right.right) < height(p.right.left)
          THEN AVL_leftRotation([p EXCEPT !.right = AVL_rightRotation(p.right)])
        ELSE p

\* insert(NodePtr p, pair key): the new subtree root and the new size_m.
RECURSIVE AVL_insert(_, _, _)
AVL_insert(p, kv, sz) ==
    IF p = nullptr THEN [p |-> Node(kv, 1, nullptr, nullptr), size |-> sz + 1]
    ELSE IF kv[1] = p.key[1] THEN [p |-> p, size |-> sz]
    ELSE IF PairLess(kv, p.key)
      THEN LET r == AVL_insert(p.left, kv, sz)
           IN  [p |-> AVL_fixup_node([p EXCEPT !.left = r.p]), size |-> r.size]
      ELSE LET r == AVL_insert(p.right, kv, sz)
           IN  [p |-> AVL_fixup_node([p EXCEPT !.right = r.p]), size |-> r.size]

\* fixup_deletion that recomputes the height and rotates nothing.
AVL_fixup_deletion_height(p) == [p EXCEPT !.height = updateHeight(p)]

AVL_fixup_deletion(p) ==
    LET bal == balance(p)
    IN  IF bal = 2 /\ balance(p.right) >= 0
          THEN AVL_leftRotation(p)
        ELSE IF bal = 2 /\ balance(p.right) < 0
          THEN AVL_leftRotation([p EXCEPT !.right = AVL_rightRotation(p.right)])
        ELSE IF bal = -2 /\ balance(p.left) <= 0
          THEN AVL_rightRotation(p)
        ELSE IF bal = -2 /\ balance(p.left) > 0
          THEN AVL_rightRotation([p EXCEPT !.left = AVL_leftRotation(p.left)])
        ELSE [p EXCEPT !.height = updateHeight(p)]

\* remove_successor(root, node): the new subtree in place of node, the pair
\* copied into root->key, and the new size_m.
RECURSIVE AVL_remove_successor(_, _)
AVL_remove_successor(node, sz) ==
    IF node.left # nullptr
      THEN LET r == AVL_remove_successor(node.left, sz)
           IN  [p |-> AVL_fixup_deletion([node EXCEPT !.left = r.p]),
                key |-> r.key, size |-> r.size]
      ELSE [p |-> node.right, key |-> node.key, size |-> sz - 1]

RECURSIVE AVL_m_remove(_, _, _)
AVL_m_remove(p, k, sz) ==
    IF p = nullptr THEN [p |-> p, size |-> sz]
    ELSE IF k < p.key[1]
      THEN LET r == AVL_m_remove(p.left, k, sz)
           IN  [p |-> AVL_fixup_deletion([p EXCEPT !.left = r.p]), size |-> r.size]
    ELSE IF k > p.key[1]
      THEN LET r == AVL_m_remove(p.right, k, sz)
           IN  [p |-> AVL_fixup_deletion([p EXCEPT !.right = r.p]), size |-> r.size]
    ELSE IF p.right = nullptr
      THEN [p |-> p.left, size |-> sz - 1]
      ELSE LET r == AVL_remove_successor(p.right, sz)
           IN  [p |-> AVL_fixup_deletion([p EXCEPT !.key = r.key, !.right = r.p]),
                size |-> r.size]

\* at(NodePtr p, key): the pair found by the descent, or no pair (the call
\* throws std::out_of_range).
RECURSIVE AVL_at(_, _)
AVL_at(p, k) ==
    IF p = nullptr THEN <<>>
    ELSE IF k = p.key[1] THEN <<p.key>>
    ELSE IF k < p.key[1] THEN AVL_at(p.left, k)
    ELSE AVL_at(p.right, k)

RECURSIVE AVL_contains(_, _)
AVL_contains(node, k) ==
    IF node = nullptr THEN FALSE
    ELSE IF k = node.key[1] THEN TRUE
    ELSE IF k < node.key[1] THEN AVL_contains(node.left, k)
    ELSE AVL_contains(node.right, k)

\* A write of w through the Value& that at / operator[] returned for key k.
RECURSIVE AVL_assign(_, _, _)
AVL_assign(p, k, w) ==
    IF p = nullptr THEN p
    ELSE IF k = p.key[1] THEN [p EXCEPT !.key = <<k, w>>]
    ELSE IF k < p.key[1] THEN [p EXCEPT !.left = AVL_assign(p.left, k, w)]
    ELSE [p EXCEPT !.right = AVL_assign(p.right, k, w)]

\* update(NodePtr p, pair key): the new subtree root, or the exception.
RECURSIVE AVL_update(_, _)
AVL_update(p, kv) ==
    IF p = nullptr THEN [p |-> p, err |-> "out_of_range"]
    ELSE IF kv[1] = p.key[1] THEN [p |-> [p EXCEPT !.key = <<p.key[1], kv[2]>>], err |-> "none"]
    ELSE IF kv[1] < p.key[1]
      THEN LET r == AVL_update(p.left, kv)
           IN  IF r.err # "none" THEN [p |-> p, err |-> r.err]
               ELSE [p |-> AVL_fixup_node([p EXCEPT !.left = r.p]), err |-> "none"]
      ELSE LET r == AVL_update(p.right, kv)
           IN  IF r.err # "none" THEN [p |-> p, err |-> r.err]
               ELSE [p |-> AVL_fixup_node([p EXCEPT !.right = r.p]), err |-> "none"]

(***************************************************************************)
(* rotations++ is the first statement of rightRotation and of              *)
(* leftRotation, and a rotation returns the child it lifted.  The          *)
(* rotations that fixup_node or fixup_deletion performed on p, in order,   *)
(* are read off the node q that it returned: p itself, a child of p (one   *)
(* rotation of p) or a grandchild of p (its child rotated first).          *)
(***************************************************************************)
AVL_rotated(p, q) ==
    IF q.key = p.key THEN <<>>
    ELSE IF p.left # nullptr /\ q.key = p.left.key THEN <<"right">>
    ELSE IF p.right # nullptr /\ q.key = p.right.key THEN <<"left">>
    ELSE IF p.left # nullptr /\ p.left.right # nullptr /\ q.key = p.left.right.key
      THEN <<"left", "right">>
    ELSE <<"right", "left">>

AVL_fixup_node_log(p) == AVL_rotated(p, AVL_fixup_node(p))

AVL_fixup_deletion_log(p) == AVL_rotated(p, AVL_fixup_deletion(p))

\* The rotations of insert(NodePtr p, pair key), in the order of the
\* increments of the counter.
RECURSIVE AVL_insert_log(_, _)
AVL_insert_log(p, kv) ==
    IF p = nullptr \/ kv[1] = p.key[1] THEN <<>>
    ELSE IF PairLess(kv, p.key)
      THEN AVL_insert_log(p.left, kv)
             \o AVL_fixup_node_log([p EXCEPT !.left = AVL_insert(p.left, kv, 0).p])
      ELSE AVL_insert_log(p.right, kv)
             \o AVL_fixup_node_log([p EXCEPT !.right = AVL_insert(p.right, kv, 0).p])

RECURSIVE AVL_remove_successor_log(_)
AVL_remove_successor_log(node) ==
    IF node.left = nullptr THEN <<>>
    ELSE AVL_remove_successor_log(node.left)
           \o AVL_fixup_deletion_log([node EXCEPT !.left = AVL_remove_successor(node.left, 0).p])

RECURSIVE AVL_m_remove_log(_, _)
AVL_m_remove_log(p, k) ==
    IF p = nullptr THEN <<>>
    ELSE IF k < p.key[1]
      THEN AVL_m_remove_log(p.left, k)
             \o AVL_fixup_deletion_log([p EXCEPT !.left = AVL_m_remove(p.left, k, 0).p])
    ELSE IF k > p.key[1]
      THEN AVL_m_remove_log(p.right, k)
             \o AVL_fixup_deletion_log([p EXCEPT !.right = AVL_m_remove(p.right, k, 0).p])
    ELSE IF p.right = nullptr THEN <<>>
    ELSE AVL_remove_successor_log(p.right)
           \o AVL_fixup_deletion_log([p EXCEPT !.key = AVL_remove_successor(p.right, 0).key,
                                               !.right = AVL_remove_successor(p.right, 0).p])

\* update(NodePtr p, pair key) of a key that the tree holds.
RECURSIVE AVL_update_log(_, _)
AVL_update_log(p, kv) ==
    IF p = nullptr \/ kv[1] = p.key[1] THEN <<>>
    ELSE IF kv[1] < p.key[1]
      THEN AVL_update_log(p.left, kv)
             \o AVL_fixup_node_log([p EXCEPT !.left = AVL_update(p.left, kv).p])
      ELSE AVL_update_log(p.right, kv)
             \o AVL_fixup_node_log([p EXCEPT !.right = AVL_update(p.right, kv).p])

RECURSIVE AVL_pairs(_)
AVL_pairs(p) ==
    IF p = nullptr THEN {}
    ELSE {p.key} \cup AVL_pairs(p.left) \cup AVL_pairs(p.right)

RECURSIVE AVL_count(_)
AVL_count(p) ==
    IF p = nullptr THEN 0
    ELSE 1 + AVL_count(p.left) + AVL_count(p.right)

\* The height of a subtree as its shape gives it (not the cached field).
RECURSIVE AVL_depth(_)
AVL_depth(p) ==
    IF p = nullptr THEN 0
    ELSE 1 + Max(AVL_depth(p.left), AVL_depth(p.right))

AVLTree == [eng |-> "AVL", root |-> nullptr, size_m |-> 0]

(***************************************************************************)
(* Both hash tables.  m_hashing is the Hash template argument, for which   *)
(* the model takes std::hash<int>.                                         *)
(***************************************************************************)
(* A max load factor is the exact fraction <<numerator, denominator>>; the *)
(* fractions of the model are floats, so the float comparisons of the      *)
(* source agree with the exact ones.                                       *)
(***************************************************************************)
MaxTableSize == 2

TableSizes == 1..MaxTableSize

LoadFactors == {<<1, 2>>, <<1, 1>>}

\* std::hash<int> is the identity.
m_hashing(k) == k

\* size_t is an unsigned integer whose arithmetic wraps around; the model
\* takes 8 bits for its width, so the greatest size_t is 255.
SIZE_MAX == 255

\* for (int i = 3; i <= sqrt(x); i += 2) if (x % i == 0) ...
RECURSIVE HasOddDivisor(_, _)
HasOddDivisor(x, i) ==
    IF i * i > x THEN FALSE
    ELSE IF x % i = 0 THEN TRUE
    ELSE HasOddDivisor(x, i + 2)

\* The loop while (not_prime): x += 2 wraps around, and the x - 2 that is
\* returned is the last x that the loop tested.
RECURSIVE NextPrimeFrom(_)
NextPrimeFrom(x) ==
    IF HasOddDivisor(x, 3) THEN NextPrimeFrom((x + 2) % (SIZE_MAX + 1)) ELSE x

get_next_prime(x) ==
    IF x <= 2 THEN 3 ELSE NextPrimeFrom(IF x % 2 = 0 THEN x + 1 ELSE x)

\* load_factor() >= m_max_load_factor and load_factor() <= m_max_load_factor
LoadFactorGE(t) ==
    t.m_number_of_elements * t.m_max_load_factor[2] >= t.m_max_load_factor[1] * t.m_table_size

LoadFactorLE(t) ==
    t.m_number_of_elements * t.m_max_load_factor[2] <= t.m_max_load_factor[1] * t.m_table_size

(***************************************************************************)
(* ChainedHashTable (include/dictionary/hash_table_c/ChainedHashTable.hpp).*)
(* Bucket i of the source is m_table[i + 1].                               *)
(***************************************************************************)
\* A vector of n elements, each of them e.
RECURSIVE Table(_, _)
Table(n, e) == IF n = 0 THEN <<>> ELSE Append(Table(n - 1, e), e)

\* A load factor that is not positive is replaced by 1.0f.
ChainedHashTable(tableSize, load_factor) ==
    [eng |-> "CH", m_number_of_elements |-> 0, m_table_size |-> tableSize,
     m_max_load_factor |-> IF load_factor[1] <= 0 THEN <<1, 1>> ELSE load_factor,
     m_table |-> Table(tableSize, <<>>)]

CH_hash_code(t, k) == m_hashing(k) % t.m_table_size

\* The position of key k in a chain, 0 when the scan reaches the end.
ChainPos(chain, k) ==
    IF \E i \in 1..Len(chain) : chain[i][1] = k
      THEN CHOOSE i \in 1..Len(chain) : chain[i][1] = k /\ \A j \in 1..(i - 1) : chain[j][1] # k
      ELSE 0

RECURSIVE Flatten(_)
Flatten(table) ==
    IF Len(table) = 0 THEN <<>> ELSE Head(table) \o Flatten(Tail(table))

RECURSIVE CH_insert(_, _)
RECURSIVE CH_rehash(_, _)
RECURSIVE CH_reinsert(_, _)

\* insert: the rehash when the load factor has reached the maximum ...
CH_insert_grow(t) ==
    IF LoadFactorGE(t) THEN CH_rehash(t, t.m_table_size * 2) ELSE t

\* The scan of the bucket that assigns the value when it finds the key.
CH_insert_assign(t, kv) ==
    IF ChainPos(t.m_table[CH_hash_code(t, kv[1]) + 1], kv[1]) # 0
      THEN [t EXCEPT !.m_table[CH_hash_code(t, kv[1]) + 1]
                             [ChainPos(t.m_table[CH_hash_code(t, kv[1]) + 1], kv[1])] = kv]
      ELSE [t EXCEPT !.m_table[CH_hash_code(t, kv[1]) + 1] = Append(@, kv),
                     !.m_number_of_elements = @ + 1]

\* ... and the scan of the bucket, which ends with push_back.
CH_insert_into(t, kv) ==
    IF ChainPos(t.m_table[CH_hash_code(t, kv[1]) + 1], kv[1]) # 0 THEN t
    ELSE [t EXCEPT !.m_table[CH_hash_code(t, kv[1]) + 1] = Append(@, kv),
                   !.m_number_of_elements = @ + 1]

CH_insert(t, kv) == CH_insert_into(CH_insert_grow(t), kv)

\* for (auto &vec : aux) for (auto &listas : vec) insert(listas)
CH_reinsert(t, pairs) ==
    IF Len(pairs) = 0 THEN t
    ELSE CH_reinsert(CH_insert(t, Head(pairs)), Tail(pairs))

CH_rehash(t, m) ==
    LET new_table_size == get_next_prime(m)
    IN  IF new_table_size > t.m_table_size
          THEN CH_reinsert([t EXCEPT !.m_table = Table(new_table_size, <<>>),
                                     !.m_table_size = new_table_size,
                                     !.m_number_of_elements = 0],
                           Flatten(t.m_table))
          ELSE t

\* update: returns silently when the scan finds no matching key.
CH_update(t, kv) ==
    LET hash_index == CH_hash_code(t, kv[1])
        pos == ChainPos(t.m_table[hash_index + 1], kv[1])
    IN  IF pos # 0
          THEN [t |-> [t EXCEPT !.m_table[hash_index + 1][pos] = <<kv[1], kv[2]>>], err |-> "none"]
          ELSE [t |-> t, err |-> "none"]

CH_contains(t, k) == ChainPos(t.m_table[CH_hash_code(t, k) + 1], k) # 0

\* at: the pair found, or no pair (the call throws std::out_of_range).
CH_at(t, k) ==
    LET chain == t.m_table[CH_hash_code(t, k) + 1]
        pos == ChainPos(chain, k)
    IN  IF pos # 0 THEN <<chain[pos]>> ELSE <<>>

CH_remove(t, k) ==
    LET slot == CH_hash_code(t, k)
        chain == t.m_table[slot + 1]
        pos == ChainPos(chain, k)
    IN  IF pos # 0
          THEN [t EXCEPT !.m_table[slot + 1] = SubSeq(chain, 1, pos - 1) \o SubSeq(chain, pos + 1, Len(chain)),
                         !.m_number_of_elements = @ - 1]
          ELSE t

CH_clear(t) ==
    [t EXCEPT !.m_table = Table(t.m_table_size, <<>>), !.m_number_of_elements = 0]

\* reserve(n): n > m_table_size * m_max_load_factor, and the size_t that
\* n / m_max_load_factor converts to.
CH_reserve(t, n) ==
    IF n * t.m_max_load_factor[2] > t.m_table_size * t.m_max_load_factor[1]
      THEN CH_rehash(t, (n * t.m_max_load_factor[2]) \div t.m_max_load_factor[1])
      ELSE t

CH_set_max_load_factor(t, lf) ==
    LET t1 == [t EXCEPT !.m_max_load_factor = lf]
    IN  IF lf[1] <= 0 THEN [t |-> t, err |-> "out_of_range"]
        ELSE IF ~LoadFactorLE(t1)
          THEN [t |-> CH_reserve(t1, t1.m_number_of_elements), err |-> "none"]
          ELSE [t |-> t1, err |-> "none"]

\* operator[]: the table after the call and the entry the returned Value&
\* designates, as <<bucket, position>>.  slot is computed before insert, and
\* insert may rehash: the reference is then m_table[slot].back() of the new
\* table, position 0 standing for back() of an empty list.
CH_index_new(t, slot) ==
    [t |-> t, slot |-> slot, pos |-> Len(t.m_table[slot + 1])]

CH_index(t, k) ==
    IF ChainPos(t.m_table[CH_hash_code(t, k) + 1], k) # 0
      THEN [t |-> t, slot |-> CH_hash_code(t, k),
            pos |-> ChainPos(t.m_table[CH_hash_code(t, k) + 1], k)]
      ELSE CH_index_new(CH_insert(t, <<k, DefaultValue>>), CH_hash_code(t, k))

CH_pairs(t) == {Flatten(t.m_table)[i] : i \in 1..Len(Flatten(t.m_table))}

CH_count(t) == Len(Flatten(t.m_table))

(***************************************************************************)
(* OpenHashTable (src/unnamed/part_002).  Slot i of the source is          *)
(* m_table[i + 1]; NoIndex is (size_t)-1.                                  *)
(***************************************************************************)
NoIndex == 0 - 1

EmptySlot == [data |-> <<0, DefaultValue>>, status |-> "EMPTY"]

Slot(kv) == [data |-> kv, status |-> "ACTIVE"]

\* A load factor that is not positive is replaced by 0.5f.
OpenHashTable(tableSize, load_factor) ==
    [eng |-> "OH", m_number_of_elements |-> 0, m_table_size |-> tableSize,
     m_max_load_factor |-> IF load_factor[1] <= 0 THEN <<1, 2>> ELSE load_factor,
     m_table |-> Table(tableSize, EmptySlot)]

OH_hash_code(t, k, try_count) == (m_hashing(k) + (try_count * try_count)) % t.m_table_size

\* findIndex: the loop from probe attempt i on.
RECURSIVE OH_findFrom(_, _, _)
OH_findFrom(t, k, i) ==
    IF i >= t.m_table_size THEN NoIndex
    ELSE LET current_index == OH_hash_code(t, k, i)
             slot == t.m_table[current_index + 1]
         IN  IF slot.status = "EMPTY" THEN NoIndex
             ELSE IF slot.status = "ACTIVE" /\ slot.data[1] = k THEN current_index
             ELSE OH_findFrom(t, k, i + 1)

\* findIndex that keeps the last slot it looked at when the probes are used up.
OH_findIndex_last(t, k) ==
    IF /\ OH_findFrom(t, k, 0) = NoIndex
       /\ \A i \in 0..(t.m_table_size - 1) : t.m_table[OH_hash_code(t, k, i) + 1].status # "EMPTY"
      THEN OH_hash_code(t, k, t.m_table_size - 1)
      ELSE OH_findFrom(t, k, 0)

OH_findIndex(t, k) == OH_findFrom(t, k, 0)

\* The counters comparisons and collisions: a table carries them only when
\* the program observes them.
OH_counted(t, comparisons, collisions) ==
    IF "comparisons" \in DOMAIN t
      THEN [t EXCEPT !.comparisons = @ + comparisons, !.collisions = @ + collisions]
      ELSE t

\* comparisons++ in findIndex: once for each slot visited that is not EMPTY,
\* before the test slot.is_active() and key == data.first.
RECURSIVE OH_findFrom_comparisons(_, _, _)
OH_findFrom_comparisons(t, k, i) ==
    IF i >= t.m_table_size THEN 0
    ELSE IF t.m_table[OH_hash_code(t, k, i) + 1].status = "EMPTY" THEN 0
    ELSE IF t.m_table[OH_hash_code(t, k, i) + 1].status = "ACTIVE"
              /\ t.m_table[OH_hash_code(t, k, i) + 1].data[1] = k THEN 1
    ELSE 1 + OH_findFrom_comparisons(t, k, i + 1)

\* The table after a call of findIndex(k).
OH_findIndex_counted(t, k) == OH_counted(t, OH_findFrom_comparisons(t, k, 0), 0)

\* The probe loop of insert from attempt i on: whether the key was met in an
\* ACTIVE slot, the EMPTY slot that ended the loop and the first DELETED slot.
RECURSIVE OH_probeFrom(_, _, _, _)
OH_probeFrom(t, k, i, first_deleted_index) ==
    IF i >= t.m_table_size
      THEN [exists |-> FALSE, hash_index |-> NoIndex, first_deleted_index |-> first_deleted_index]
    ELSE LET current_index == OH_hash_code(t, k, i)
             slot == t.m_table[current_index + 1]
         IN  IF slot.status = "EMPTY"
               THEN [exists |-> FALSE, hash_index |-> current_index,
                     first_deleted_index |-> first_deleted_index]
             ELSE IF slot.status = "ACTIVE"
               THEN IF slot.data[1] = k
                      THEN [exists |-> TRUE, hash_index |-> NoIndex,
                            first_deleted_index |-> first_deleted_index]
                      ELSE OH_probeFrom(t, k, i + 1, first_deleted_index)
             ELSE OH_probeFrom(t, k, i + 1,
                               IF first_deleted_index = NoIndex THEN current_index
                               ELSE first_deleted_index)

\* comparisons++ in the probe loop of insert: once for each ACTIVE slot ...
RECURSIVE OH_probeFrom_comparisons(_, _, _)
OH_probeFrom_comparisons(t, k, i) ==
    IF i >= t.m_table_size THEN 0
    ELSE IF t.m_table[OH_hash_code(t, k, i) + 1].status = "EMPTY" THEN 0
    ELSE IF t.m_table[OH_hash_code(t, k, i) + 1].status = "ACTIVE"
      THEN IF t.m_table[OH_hash_code(t, k, i) + 1].data[1] = k THEN 1
           ELSE 1 + OH_probeFrom_comparisons(t, k, i + 1)
    ELSE OH_probeFrom_comparisons(t, k, i + 1)

\* ... and collisions++ once for each ACTIVE slot that holds another key.
RECURSIVE OH_probeFrom_collisions(_, _, _)
OH_probeFrom_collisions(t, k, i) ==
    IF i >= t.m_table_size THEN 0
    ELSE IF t.m_table[OH_hash_code(t, k, i) + 1].status = "EMPTY" THEN 0
    ELSE IF t.m_table[OH_hash_code(t, k, i) + 1].status = "ACTIVE"
      THEN IF t.m_table[OH_hash_code(t, k, i) + 1].data[1] = k THEN 0
           ELSE 1 + OH_probeFrom_collisions(t, k, i + 1)
    ELSE OH_probeFrom_collisions(t, k, i + 1)

OH_probeFrom_counted(t, k) ==
    OH_counted(t, OH_probeFrom_comparisons(t, k, 0), OH_probeFrom_collisions(t, k, 0))

RECURSIVE OH_insert(_, _)
RECURSIVE OH_rehash(_, _)
RECURSIVE OH_reinsert(_, _)

\* insert: the table after the call and the exception it ends with, if any.
\* The rehash when the load factor has reached the maximum ...
OH_insert_grow(t) ==
    IF LoadFactorGE(t) THEN OH_rehash(t, t.m_table_size * 2) ELSE [t |-> t, err |-> "none"]

\* ... the slot that the probe loop chose ...
OH_insert_slot(pr) ==
    IF pr.first_deleted_index # NoIndex THEN pr.first_deleted_index ELSE pr.hash_index

\* ... and the store into it.
OH_insert_store(t, kv, pr) ==
    IF pr.exists THEN [t |-> t, err |-> "none"]
    ELSE IF OH_insert_slot(pr) = NoIndex THEN [t |-> t, err |-> "out_of_range"]
    ELSE [t |-> [t EXCEPT !.m_table[OH_insert_slot(pr) + 1] = Slot(kv),
                          !.m_number_of_elements = @ + 1],
          err |-> "none"]

OH_insert_probe(r, kv) ==
    IF r.err # "none" THEN r
    ELSE OH_insert_store(OH_probeFrom_counted(r.t, kv[1]), kv,
                         OH_probeFrom(r.t, kv[1], 0, NoIndex))

OH_insert(t, kv) == OH_insert_probe(OH_insert_grow(t), kv)

\* for (auto &slot : aux) if (slot.is_active()) insert(slot.data); an
\* exception leaves the loop.
OH_reinsert_next(r, slots) ==
    IF r.err # "none" THEN r ELSE OH_reinsert(r.t, slots)

OH_reinsert(t, slots) ==
    IF Len(slots) = 0 THEN [t |-> t, err |-> "none"]
    ELSE IF Head(slots).status # "ACTIVE" THEN OH_reinsert(t, Tail(slots))
    ELSE OH_reinsert_next(OH_insert(t, Head(slots).data), Tail(slots))

OH_rehash(t, m) ==
    LET new_table_size == get_next_prime(m)
    IN  IF new_table_size > t.m_table_size
          THEN OH_reinsert([t EXCEPT !.m_table = Table(new_table_size, EmptySlot),
                                     !.m_table_size = new_table_size,
                                     !.m_number_of_elements = 0],
                           t.m_table)
          ELSE [t |-> t, err |-> "none"]

OH_update(t, kv) ==
    LET hash_index == OH_findIndex(t, kv[1])
    IN  IF hash_index # NoIndex
          THEN [t |-> [t EXCEPT !.m_table[hash_index + 1].data = <<@[1], kv[2]>>], err |-> "none"]
          ELSE [t |-> t, err |-> "out_of_range"]

OH_contains(t, k) == OH_findIndex(t, k) # NoIndex

OH_at(t, k) ==
    LET hash_index == OH_findIndex(t, k)
    IN  IF hash_index # NoIndex THEN <<t.m_table[hash_index + 1].data>> ELSE <<>>

\* remove that marks the slot EMPTY.
OH_remove_empty(t, k) ==
    IF OH_findIndex(t, k) # NoIndex
      THEN [t EXCEPT !.m_number_of_elements = @ - 1,
                     !.m_table[OH_findIndex(t, k) + 1].status = "EMPTY"]
      ELSE t

OH_remove(t, k) ==
    LET slot == OH_findIndex(t, k)
    IN  IF slot # NoIndex
          THEN [t EXCEPT !.m_number_of_elements = @ - 1,
                         !.m_table[slot + 1].status = "DELETED"]
          ELSE t

OH_clear(t) ==
    [t EXCEPT !.m_table = Table(t.m_table_size, EmptySlot), !.m_number_of_elements = 0]

\* reserve(n) is noexcept: an exception that leaves rehash ends the program
\* in std::terminate.
OH_reserve(t, n) ==
    LET r == OH_rehash(t, (n * t.m_max_load_factor[2]) \div t.m_max_load_factor[1])
    IN  IF n * t.m_max_load_factor[2] > t.m_table_size * t.m_max_load_factor[1]
          THEN IF r.err # "none" THEN [r EXCEPT !.err = "terminate"] ELSE r
          ELSE [t |-> t, err |-> "none"]

OH_set_max_load_factor(t, lf) ==
    LET t1 == [t EXCEPT !.m_max_load_factor = lf]
    IN  IF lf[1] <= 0 THEN [t |-> t, err |-> "out_of_range"]
        ELSE IF ~LoadFactorLE(t1) THEN OH_reserve(t1, t1.m_number_of_elements)
        ELSE [t |-> t1, err |-> "none"]

\* operator[]: the table after the call, the exception of insert if any, and
\* the slot the returned Value& designates: m_table[findIndex(k)].
OH_index_new(r, k) ==
    [t |-> r.t, err |-> r.err, slot |-> OH_findIndex(r.t, k)]

OH_index(t, k) ==
    IF OH_findIndex(t, k) # NoIndex THEN [t |-> t, err |-> "none", slot |-> OH_findIndex(t, k)]
    ELSE OH_index_new(OH_insert(t, <<k, DefaultValue>>), k)

OH_active(t) == {i \in 1..t.m_table_size : t.m_table[i].status = "ACTIVE"}

OH_pairs(t) == {t.m_table[i].data : i \in OH_active(t)}

OH_count(t) == Cardinality(OH_active(t))

(***************************************************************************)
(* RedBlackTree (include/RB_Tree/RedBlackTree.hpp).  The nodes live in a   *)
(* heap h: address 0 is the sentinel nil that the constructor allocates,   *)
(* addresses 1..RBMaxNodes are the nodes made by new NodeRB, and Freed     *)
(* stands for every address whose node was deleted.  Dereferencing Freed   *)
(* is undefined behaviour (fault "undefined"); a loop or a recursion that  *)
(* comes back to a state it was in never ends (fault "hang").              *)
(***************************************************************************)
RBMaxNodes == 7

nil == 0

Freed == RBMaxNodes + 1

Addr == 0..Freed

NodeRB(kv, color, parent, left, right) ==
    [key |-> kv, color |-> color, parent |-> parent, left |-> left, right |-> right]

NoNode == NodeRB(<<0, DefaultValue>>, "BLACK", nil, nil, nil)

\* RedBlackTree(): nil is BLACK and its three links designate nil itself.
RedBlackTree ==
    [eng |-> "RB", root |-> nil, size_m |-> 0, fault |-> "none",
     live |-> {}, h |-> [a \in Addr |-> NoNode]]

Touch(m, S) ==
    IF m.fault = "none" /\ Freed \in S THEN [m EXCEPT !.fault = "undefined"] ELSE m

\* The statements of a member function are applied one after the other, each
\* to the tree m that the statement before it left.
Left(m, x) == m.h[x].left

Right(m, x) == m.h[x].right

Up(m, x) == m.h[x].parent

Up2(m, x) == m.h[m.h[x].parent].parent

Color(m, x) == m.h[x].color

SetColor(m, x, c) == Touch([m EXCEPT !.h[x].color = c], {x})

\* The counter rotations, and log, the rotations that the member function in
\* progress has performed so far.  No member function reads either of them,
\* and a tree carries them only when the program observes them.
RB_rotations(m) ==
    IF "rotations" \in DOMAIN m THEN [m EXCEPT !.rotations = @ + 1] ELSE m

RB_log(m, rotation) ==
    IF "log" \in DOMAIN m THEN [m EXCEPT !.log = Append(@, rotation)] ELSE m

\* rightRotation(p), with aux = p->left; its first statement is rotations++
RB_rightRotation_1(m, p, aux) ==
    Touch([m EXCEPT !.h[p].left = Right(m, aux)], {p, aux})

RB_rightRotation_2(m, p, aux) ==
    IF Right(m, aux) # nil
      THEN Touch([m EXCEPT !.h[Right(m, aux)].parent = p], {Right(m, aux)})
      ELSE m

RB_rightRotation_3(m, p, aux) ==
    [m EXCEPT !.h[aux].parent = Up(m, p)]

RB_rightRotation_4(m, p, aux) ==
    IF Up(m, p) = nil THEN [m EXCEPT !.root = aux]
    ELSE IF p = Right(m, Up(m, p))
      THEN Touch([m EXCEPT !.h[Up(m, p)].right = aux], {Up(m, p)})
      ELSE Touch([m EXCEPT !.h[Up(m, p)].left = aux], {Up(m, p)})

RB_rightRotation_5(m, p, aux) ==
    [m EXCEPT !.h[aux].right = p, !.h[p].parent = aux]

RB_rightRotation(m, p) ==
    RB_rightRotation_5(
      RB_rightRotation_4(
        RB_rightRotation_3(
          RB_rightRotation_2(
            RB_rightRotation_1(RB_rotations(RB_log(m, "right")), p, Left(m, p)),
            p, Left(m, p)),
          p, Left(m, p)),
        p, Left(m, p)),
      p, Left(m, p))

\* leftRotation(p), with aux = p->right; its first statement is rotations++
RB_leftRotation_1(m, p, aux) ==
    Touch([m EXCEPT !.h[p].right = Left(m, aux)], {p, aux})

RB_leftRotation_2(m, p, aux) ==
    IF Left(m, aux) # nil
      THEN Touch([m EXCEPT !.h[Left(m, aux)].parent = p], {Left(m, aux)})
      ELSE m

RB_leftRotation_3(m, p, aux) ==
    [m EXCEPT !.h[aux].parent = Up(m, p)]

RB_leftRotation_4(m, p, aux) ==
    IF Up(m, p) = nil THEN [m EXCEPT !.root = aux]
    ELSE IF p = Left(m, Up(m, p))
      THEN Touch([m EXCEPT !.h[Up(m, p)].left = aux], {Up(m, p)})
      ELSE Touch([m EXCEPT !.h[Up(m, p)].right = aux], {Up(m, p)})

RB_leftRotation_5(m, p, aux) ==
    [m EXCEPT !.h[aux].left = p, !.h[p].parent = aux]

RB_leftRotation(m, p) ==
    RB_leftRotation_5(
      RB_leftRotation_4(
        RB_leftRotation_3(
          RB_leftRotation_2(
            RB_leftRotation_1(RB_rotations(RB_log(m, "left")), p, Right(m, p)),
            p, Right(m, p)),
          p, Right(m, p)),
        p, Right(m, p)),
      p, Right(m, p))

\* The side of the grandparent that the parent of p hangs on.
RB_side(m, p) == IF Up(m, p) = Left(m, Up2(m, p)) THEN "left" ELSE "right"

RB_uncle(m, p) ==
    IF RB_side(m, p) = "left" THEN Right(m, Up2(m, p)) ELSE Left(m, Up2(m, p))

\* fixup_node, the uncle is RED: three colors change and p moves two levels up.
RB_fixup_recolor(m, p) ==
    [m |-> SetColor(SetColor(SetColor(m, Up(m, p), "BLACK"), RB_uncle(m, p), "BLACK"),
                    Up2(m, p), "RED"),
     p |-> Up2(m, p)]

\* fixup_node, the uncle is BLACK: p is first turned into an outer child
\* (rotations++ precedes the call of the rotation) ...
RB_fixup_inner(m, p, side) ==
    IF side = "left" /\ p = Right(m, Up(m, p))
      THEN [m |-> RB_leftRotation(RB_rotations(m), Up(m, p)), p |-> Up(m, p)]
    ELSE IF side = "right" /\ p = Left(m, Up(m, p))
      THEN [m |-> RB_rightRotation(RB_rotations(m), Up(m, p)), p |-> Up(m, p)]
    ELSE [m |-> m, p |-> p]

\* ... then p->parent->color = BLACK and p->parent->parent->color = RED ...
RB_fixup_paint(m, p) ==
    SetColor(SetColor(m, Up(m, p), "BLACK"), Up2(m, p), "RED")

\* ... and, after rotations++, the grandparent is rotated.
RB_fixup_rotate(m, p, side) ==
    IF side = "left" THEN RB_rightRotation(RB_rotations(m), Up2(m, p))
    ELSE RB_leftRotation(RB_rotations(m), Up2(m, p))

RB_fixup_outer(r, side) ==
    [m |-> RB_fixup_rotate(RB_fixup_paint(r.m, r.p), r.p, side), p |-> r.p]

\* One pass of the body of the while loop of fixup_node: the tree and the new p.
RB_fixup_node_body(m, p) ==
    IF Freed \in {p, Up(m, p), Up2(m, p), RB_uncle(m, p)}
      THEN [m |-> Touch(m, {Freed}), p |-> p]
    ELSE IF Color(m, RB_uncle(m, p)) = "RED" THEN RB_fixup_recolor(m, p)
    ELSE RB_fixup_outer(RB_fixup_inner(m, p, RB_side(m, p)), RB_side(m, p))

\* fixup_node(p); seen holds the states the loop was in at its test.
RECURSIVE RB_fixup_loop(_, _, _)
RB_fixup_next(r, seen) == RB_fixup_loop(r.m, r.p, seen)

RB_fixup_loop(m, p, seen) ==
    IF m.fault # "none" THEN m
    ELSE IF p = Freed \/ (p # m.root /\ Up(m, p) = Freed) THEN Touch(m, {Freed})
    ELSE IF p # m.root /\ Color(m, Up(m, p)) = "RED"
      THEN IF <<m.h, m.root, p>> \in seen THEN [m EXCEPT !.fault = "hang"]
           ELSE RB_fixup_next(RB_fixup_node_body(m, p), seen \cup {<<m.h, m.root, p>>})
    ELSE SetColor(m, m.root, "BLACK")

RB_fixup_node(m, p) == RB_fixup_loop(m, p, {})

\* The descent of insert, erase, at, contains and operator[] from aux: the
\* node that holds k (nil when the descent ends at nil) and the last node
\* before it.  A descent longer than the heap never ends.
RECURSIVE RB_descend(_, _, _, _, _)
RB_descend(m, aux, parent, k, fuel) ==
    IF aux = nil THEN [node |-> nil, parent |-> parent, fault |-> "none"]
    ELSE IF aux = Freed THEN [node |-> nil, parent |-> parent, fault |-> "undefined"]
    ELSE IF fuel = 0 THEN [node |-> nil, parent |-> parent, fault |-> "hang"]
    ELSE IF k < m.h[aux].key[1] THEN RB_descend(m, Left(m, aux), aux, k, fuel - 1)
    ELSE IF k > m.h[aux].key[1] THEN RB_descend(m, Right(m, aux), aux, k, fuel - 1)
    ELSE [node |-> aux, parent |-> parent, fault |-> "none"]

RB_find(m, k) == RB_descend(m, m.root, nil, k, RBMaxNodes + 1)

RB_contains(m, k) == RB_find(m, k).node # nil

\* new NodeRB(...): an address that holds no node.
NewAddr(m) == CHOOSE a \in 1..RBMaxNodes : a \notin m.live /\ \A b \in 1..(a - 1) : b \in m.live

\* insert(NodePtr p, NodePtr key) once the descent ended at nil under parent:
\* the node key is linked ...
RB_insert_link(m, key, kv, parent) ==
    IF parent = nil THEN [m EXCEPT !.root = key]
    ELSE IF kv[1] < m.h[parent].key[1] THEN [m EXCEPT !.h[parent].left = key]
    ELSE [m EXCEPT !.h[parent].right = key]

RB_insert_new(m, key, kv, parent) ==
    RB_insert_link([m EXCEPT !.h[key] = NodeRB(kv, "RED", parent, nil, nil),
                             !.size_m = @ + 1,
                             !.live = @ \cup {key}],
                   key, kv, parent)

\* new NodeRB(key, RED, nil, nil, nil) that no link is made to.
RB_insert_unlinked(m, key, kv) ==
    [m EXCEPT !.h[key] = NodeRB(kv, "RED", nil, nil, nil), !.live = @ \cup {key}]

\* ... and fixup_node(key) runs; a pair whose key is found leaves the tree
\* as it is, and the node that was allocated for the pair outside of it.
RB_insert_at(m, kv, s) ==
    IF s.fault # "none" THEN [m EXCEPT !.fault = s.fault]
    ELSE IF s.node # nil THEN RB_insert_unlinked(m, NewAddr(m), kv)
    ELSE RB_fixup_node(RB_insert_new(m, NewAddr(m), kv, s.parent), NewAddr(m))

RB_insert(m, kv) == RB_insert_at(m, kv, RB_find(m, kv[1]))

\* fixup_deletion(x): side is "left" when x == x->parent->left.  w is the
\* sibling of x, re-read from the tree as the source re-reads it; Near and Far
\* are the children of w on the side of x and on the other side.
RB_w(m, x, side) == IF side = "left" THEN Right(m, Up(m, x)) ELSE Left(m, Up(m, x))

Near(m, w, side) == IF side = "left" THEN Left(m, w) ELSE Right(m, w)

Far(m, w, side) == IF side = "left" THEN Right(m, w) ELSE Left(m, w)

RotateToward(m, p, side) ==
    IF side = "left" THEN RB_leftRotation(m, p) ELSE RB_rightRotation(m, p)

RotateAway(m, p, side) ==
    IF side = "left" THEN RB_rightRotation(m, p) ELSE RB_leftRotation(m, p)

\* Caso 1
RB_fixup_deletion_1(m, x, side) ==
    IF Freed \in {x, Up(m, x), RB_w(m, x, side)} THEN Touch(m, {Freed})
    ELSE IF Color(m, RB_w(m, x, side)) = "RED"
      THEN RotateToward(SetColor(SetColor(m, RB_w(m, x, side), "BLACK"), Up(m, x), "RED"),
                        Up(m, x), side)
      ELSE m

\* Caso 3
RB_fixup_deletion_3(m, x, side) ==
    IF Color(m, Far(m, RB_w(m, x, side), side)) = "BLACK"
      THEN RotateAway(SetColor(SetColor(m, Near(m, RB_w(m, x, side), side), "BLACK"),
                               RB_w(m, x, side), "RED"),
                      RB_w(m, x, side), side)
      ELSE m

\* Caso 4
RB_fixup_deletion_4(m, x, side) ==
    IF Freed \in {Up(m, x), RB_w(m, x, side), Far(m, RB_w(m, x, side), side)}
      THEN Touch(m, {Freed})
      ELSE RotateToward(SetColor(SetColor(SetColor(m, RB_w(m, x, side), Color(m, Up(m, x))),
                                          Up(m, x), "BLACK"),
                                 Far(m, RB_w(m, x, side), side), "BLACK"),
                        Up(m, x), side)

\* x = root
RB_fixup_deletion_end(m) == [m |-> m, x |-> m.root]

\* Caso 2, or else Caso 3 and Caso 4
RB_fixup_deletion_2(m, x, side) ==
    IF m.fault # "none" THEN [m |-> m, x |-> x]
    ELSE IF Freed \in {RB_w(m, x, side), Left(m, RB_w(m, x, side)), Right(m, RB_w(m, x, side))}
      THEN [m |-> Touch(m, {Freed}), x |-> x]
    ELSE IF Color(m, Left(m, RB_w(m, x, side))) = "BLACK"
            /\ Color(m, Right(m, RB_w(m, x, side))) = "BLACK"
      THEN [m |-> SetColor(m, RB_w(m, x, side), "RED"), x |-> Up(m, x)]
    ELSE RB_fixup_deletion_end(
           RB_fixup_deletion_4(RB_fixup_deletion_3(m, x, side), x, side))

\* One pass of the body of the while loop of fixup_deletion: the tree and the new x.
RB_fixup_deletion_side(m, x, side) ==
    RB_fixup_deletion_2(RB_fixup_deletion_1(m, x, side), x, side)

RB_fixup_deletion_body(m, x) ==
    IF Freed \in {x, Up(m, x)} THEN [m |-> Touch(m, {Freed}), x |-> x]
    ELSE RB_fixup_deletion_side(m, x, IF x = Left(m, Up(m, x)) THEN "left" ELSE "right")

RECURSIVE RB_fixup_deletion_loop(_, _, _)
RB_fixup_deletion_next(r, seen) == RB_fixup_deletion_loop(r.m, r.x, seen)

RB_fixup_deletion_loop(m, x, seen) ==
    IF m.fault # "none" THEN m
    ELSE IF x = Freed THEN Touch(m, {Freed})
    ELSE IF x # m.root /\ Color(m, x) = "BLACK"
      THEN IF <<m.h, m.root, x>> \in seen THEN [m EXCEPT !.fault = "hang"]
           ELSE RB_fixup_deletion_next(RB_fixup_deletion_body(m, x),
                                       seen \cup {<<m.h, m.root, x>>})
    ELSE SetColor(m, x, "BLACK")

RB_fixup_deletion(m, x) == RB_fixup_deletion_loop(m, x, {})

\* minimun(node)
RECURSIVE RB_minimun(_, _, _)
RB_minimun(m, aux, fuel) ==
    IF aux = Freed THEN [node |-> aux, fault |-> "undefined"]
    ELSE IF fuel = 0 THEN [node |-> aux, fault |-> "hang"]
    ELSE IF Left(m, aux) # nil THEN RB_minimun(m, Left(m, aux), fuel - 1)
    ELSE [node |-> aux, fault |-> IF aux = nil THEN "out_of_range" ELSE "none"]

\* delete aux: the address holds no node any more, and every link that still
\* designates it designates freed memory.
Dangle(a, aux) == IF a = aux THEN Freed ELSE a

Delete(m, aux) ==
    [m EXCEPT !.live = @ \ {aux},
              !.root = Dangle(@, aux),
              !.h = [a \in Addr |->
                       IF a = aux \/ a = Freed THEN NoNode
                       ELSE [m.h[a] EXCEPT !.parent = Dangle(@, aux),
                                           !.left = Dangle(@, aux),
                                           !.right = Dangle(@, aux)]]]

\* remove(NodePtr key): aux is the node to unlink, aux2 the child that takes
\* its place.
RB_remove_aux(m, key) ==
    IF Left(m, key) = nil \/ Right(m, key) = nil THEN [node |-> key, fault |-> "none"]
    ELSE RB_minimun(m, Right(m, key), RBMaxNodes + 1)

RB_remove_aux2(m, aux) == IF Left(m, aux) # nil THEN Left(m, aux) ELSE Right(m, aux)

\* aux2->parent = aux->parent
RB_remove_1(m, aux, aux2) ==
    Touch([m EXCEPT !.h[aux2].parent = Up(m, aux)], {aux, aux2})

RB_remove_2(m, aux, aux2) ==
    IF Up(m, aux) = nil THEN [m EXCEPT !.root = aux2]
    ELSE IF aux = Left(m, Up(m, aux))
      THEN Touch([m EXCEPT !.h[Up(m, aux)].left = aux2], {Up(m, aux)})
      ELSE Touch([m EXCEPT !.h[Up(m, aux)].right = aux2], {Up(m, aux)})

\* key->key = aux->key
RB_remove_3(m, key, aux) ==
    IF aux # key THEN [m EXCEPT !.h[key].key = m.h[aux].key] ELSE m

RB_remove_4(m, aux, aux2) ==
    IF m.fault = "none" /\ Color(m, aux) = "BLACK" THEN RB_fixup_deletion(m, aux2) ELSE m

\* delete aux; size_m--
RB_remove_5(m, aux) ==
    IF m.fault # "none" THEN m ELSE [Delete(m, aux) EXCEPT !.size_m = @ - 1]

RB_remove_at(m, key, aux, aux2) ==
    RB_remove_5(
      RB_remove_4(
        RB_remove_3(
          RB_remove_2(
            RB_remove_1(m, aux, aux2),
            aux, aux2),
          key, aux),
        aux, aux2),
      aux)

RB_remove_from(m, key, mn) ==
    IF mn.fault # "none" THEN [m EXCEPT !.fault = mn.fault]
    ELSE RB_remove_at(m, key, mn.node, RB_remove_aux2(m, mn.node))

RB_remove(m, key) == RB_remove_from(m, key, RB_remove_aux(m, key))

\* erase(key)
RB_erase_at(m, s) ==
    IF s.fault # "none" THEN [m EXCEPT !.fault = s.fault]
    ELSE IF s.node # nil THEN RB_remove(m, s.node)
    ELSE m

RB_erase(m, k) == RB_erase_at(m, RB_find(m, k))

\* operator[]: the tree after the call and the node whose value the returned
\* Value& designates (nil when at(root, key) throws).
RB_index_found(m, s) ==
    [m |-> [m EXCEPT !.fault = s.fault], node |-> s.node]

RB_index_new(m, k) ==
    IF m.fault # "none" THEN [m |-> m, node |-> nil]
    ELSE RB_index_found(m, RB_find(m, k))

RB_index_at(m, k, s) ==
    IF s.fault # "none" \/ s.node # nil THEN RB_index_found(m, s)
    ELSE RB_index_new(RB_insert(m, <<k, DefaultValue>>), k)

RB_index(m, k) == RB_index_at(m, k, RB_find(m, k))

\* update(NodePtr p, pair key): an absent key is inserted, and fixup_node(p)
\* runs on every node of the path as the recursion returns.
RB_update_fixup(m, p) == IF m.fault # "none" THEN m ELSE RB_fixup_node(m, p)

RECURSIVE RB_update(_, _, _, _)
RB_update(m, p, kv, fuel) ==
    IF m.fault # "none" THEN m
    ELSE IF p = nil THEN RB_insert(m, kv)
    ELSE IF p = Freed THEN Touch(m, {Freed})
    ELSE IF fuel = 0 THEN [m EXCEPT !.fault = "hang"]
    ELSE IF kv[1] = m.h[p].key[1]
      THEN RB_update_fixup([m EXCEPT !.h[p].key = <<@[1], kv[2]>>], p)
    ELSE IF kv[1] < m.h[p].key[1]
      THEN RB_update_fixup(RB_update(m, Left(m, p), kv, fuel - 1), p)
    ELSE RB_update_fixup(RB_update(m, Right(m, p), kv, fuel - 1), p)

\* The nodes below p that clear(NodePtr) deletes, in the order it reaches
\* them; a node reached twice is deleted twice.
RECURSIVE RB_below(_, _, _)
RB_below(m, p, fuel) ==
    IF p = nil THEN <<>>
    ELSE IF p = Freed \/ fuel = 0 THEN <<Freed>>
    ELSE RB_below(m, Left(m, p), fuel - 1) \o RB_below(m, Right(m, p), fuel - 1) \o <<p>>

RECURSIVE DeleteAll(_, _)
DeleteAll(m, nodes) ==
    IF Len(nodes) = 0 THEN m ELSE DeleteAll(Delete(m, Head(nodes)), Tail(nodes))

Range(seq) == {seq[i] : i \in 1..Len(seq)}

\* clear()
RB_clear_nodes(m, nodes) ==
    IF Freed \in Range(nodes) \/ Cardinality(Range(nodes)) # Len(nodes)
      THEN [m EXCEPT !.fault = "undefined"]
      ELSE [DeleteAll(m, nodes) EXCEPT !.root = nil, !.size_m = 0]

RB_clear(m) == RB_clear_nodes(m, RB_below(m, m.root, RBMaxNodes + 1))

\* The pairs and the number of the nodes that the links left and right reach
\* from the root.
RECURSIVE RB_reach(_, _, _)
RB_reach(m, stack, seen) ==
    IF Len(stack) = 0 THEN seen
    ELSE IF Head(stack) \in {nil, Freed} \cup seen THEN RB_reach(m, Tail(stack), seen)
    ELSE RB_reach(m, <<Left(m, Head(stack)), Right(m, Head(stack))>> \o Tail(stack),
                  seen \cup {Head(stack)})

RB_nodes(m) == RB_reach(m, <<m.root>>, {})

RB_pairs(m) == {m.h[x].key : x \in RB_nodes(m)}

RB_count(m) == Cardinality(RB_nodes(m))

(***************************************************************************)
(* Addresses are opaque: two heaps that differ only in which addresses     *)
(* new returned are the same state.  Canon renames the nodes that the tree *)
(* can still reach (from root or from a link of nil, along any link) to    *)
(* 1, 2, ... in the order of a fixed traversal; a node that no link        *)
(* reaches is leaked and never used again, so the model forgets it and     *)
(* counts it.                                                              *)
(***************************************************************************)
RECURSIVE RB_order(_, _, _)
RB_order(m, stack, ord) ==
    IF Len(stack) = 0 THEN ord
    ELSE IF Head(stack) \in {nil, Freed} \cup Range(ord) THEN RB_order(m, Tail(stack), ord)
    ELSE RB_order(m, <<Left(m, Head(stack)), Right(m, Head(stack)), Up(m, Head(stack))>>
                       \o Tail(stack),
                  Append(ord, Head(stack)))

Rename(ord, a) ==
    IF a = nil \/ a = Freed THEN a ELSE CHOOSE i \in 1..Len(ord) : ord[i] = a

RenameNode(ord, node) ==
    [node EXCEPT !.parent = Rename(ord, @), !.left = Rename(ord, @), !.right = Rename(ord, @)]

Renumber(m, ord) ==
    [m EXCEPT !.root = Rename(ord, @),
              !.live = 1..Len(ord),
              !.h = [a \in Addr |-> IF a = nil THEN RenameNode(ord, m.h[nil])
                                    ELSE IF a \in 1..Len(ord) THEN RenameNode(ord, m.h[ord[a]])
                                    ELSE NoNode]]

\* The number of nodes that were forgotten: a tree carries it only when the
\* program observes it.
RB_leaked(m, n) == IF "leaked" \in DOMAIN m THEN [m EXCEPT !.leaked = @ + n] ELSE m

RB_forget(m, ord) == RB_leaked(Renumber(m, ord), Cardinality(m.live \ Range(ord)))

Canon(m) == RB_forget(m, RB_order(m, <<m.root, Left(m, nil), Right(m, nil), Up(m, nil)>>, <<>>))

(***************************************************************************)
(* The Dictionary interface (include/dictionary/Dictionary.hpp): each call *)
(* is dispatched on the engine behind the reference.  A call yields the    *)
(* dictionary after it, how it ended ("none", the exception                *)
(* "out_of_range", or the faults "undefined" and "hang") and, for at and   *)
(* operator[], the key of the entry that the returned Value& designates.   *)
(***************************************************************************)
Result(dict, err, ref) == [d |-> dict, err |-> err, ref |-> ref]

\* A member function of the red-black tree that went from dict to m.
RB_result(dict, m, ref) ==
    IF m.fault # "none" THEN Result(dict, m.fault, {}) ELSE Result(Canon(m), "none", ref)

\* A member function of the AVL tree that left the root r.p and the size r.size.
AVL_result(dict, r) ==
    Result([dict EXCEPT !.root = r.p, !.size_m = r.size], "none", {})

\* A member function of a hash table that left the table r.t.
Hash_result(r) == Result(r.t, r.err, {})

insert(dict, kv) ==
    CASE dict.eng = "AVL" -> AVL_result(dict, AVL_insert(dict.root, kv, dict.size_m))
      [] dict.eng = "RB" -> RB_result(dict, RB_insert(dict, kv), {})
      [] dict.eng = "CH" -> Result(CH_insert(dict, kv), "none", {})
      [] dict.eng = "OH" -> Hash_result(OH_insert(dict, kv))

remove(dict, k) ==
    CASE dict.eng = "AVL" -> AVL_result(dict, AVL_m_remove(dict.root, k, dict.size_m))
      [] dict.eng = "RB" -> RB_result(dict, RB_erase(dict, k), {})
      [] dict.eng = "CH" -> Result(CH_remove(dict, k), "none", {})
      [] dict.eng = "OH" -> Result(OH_remove(dict, k), "none", {})

AVL_update_result(dict, r) == Result([dict EXCEPT !.root = r.p], r.err, {})

update(dict, kv) ==
    CASE dict.eng = "AVL" -> AVL_update_result(dict, AVL_update(dict.root, kv))
      [] dict.eng = "RB" -> RB_result(dict, RB_update(dict, dict.root, kv, RBMaxNodes + 1), {})
      [] dict.eng = "CH" -> Hash_result(CH_update(dict, kv))
      [] dict.eng = "OH" -> Hash_result(OH_update(dict, kv))

clear(dict) ==
    CASE dict.eng = "AVL" -> Result([dict EXCEPT !.root = nullptr, !.size_m = 0], "none", {})
      [] dict.eng = "RB" -> RB_result(dict, RB_clear(dict), {})
      [] dict.eng = "CH" -> Result(CH_clear(dict), "none", {})
      [] dict.eng = "OH" -> Result(OH_clear(dict), "none", {})

size(dict) ==
    IF dict.eng \in {"AVL", "RB"} THEN dict.size_m ELSE dict.m_number_of_elements

empty(dict) ==
    CASE dict.eng = "AVL" -> dict.root = nullptr
      [] dict.eng = "RB" -> dict.root = nil
      [] OTHER -> dict.m_number_of_elements = 0

\* The pair that at(k) finds, or how the lookup ends when it finds none.
Found(r) == [err |-> IF r = <<>> THEN "out_of_range" ELSE "none", pair |-> r]

RB_found(dict, s) ==
    IF s.fault # "none" THEN [err |-> s.fault, pair |-> <<>>]
    ELSE IF s.node = nil THEN [err |-> "out_of_range", pair |-> <<>>]
    ELSE [err |-> "none", pair |-> <<dict.h[s.node].key>>]

Lookup(dict, k) ==
    CASE dict.eng = "AVL" -> Found(AVL_at(dict.root, k))
      [] dict.eng = "RB" -> RB_found(dict, RB_find(dict, k))
      [] dict.eng = "CH" -> Found(CH_at(dict, k))
      [] dict.eng = "OH" -> Found(OH_at(dict, k))

contains(dict, k) ==
    CASE dict.eng = "AVL" -> AVL_contains(dict.root, k)
      [] dict.eng = "RB" -> RB_contains(dict, k)
      [] dict.eng = "CH" -> CH_contains(dict, k)
      [] dict.eng = "OH" -> OH_contains(dict, k)

\* The assignment of w to the Value& that at(k) returned.
Assign(dict, k, w) ==
    CASE dict.eng = "AVL" -> [dict EXCEPT !.root = AVL_assign(@, k, w)]
      [] dict.eng = "RB" -> [dict EXCEPT !.h[RB_find(dict, k).node].key = <<k, w>>]
      [] dict.eng = "CH" ->
           [dict EXCEPT !.m_table[CH_hash_code(dict, k) + 1]
                                 [ChainPos(dict.m_table[CH_hash_code(dict, k) + 1], k)] = <<k, w>>]
      [] dict.eng = "OH" -> [dict EXCEPT !.m_table[OH_findIndex(dict, k) + 1].data = <<k, w>>]

\* at(k), followed when wr holds by the assignment of w to the Value& it
\* returned.
at(dict, k, wr, w) ==
    IF Lookup(dict, k).err # "none" THEN Result(dict, Lookup(dict, k).err, {})
    ELSE IF ~wr THEN Result(dict, "none", {k})
    ELSE Result(Assign(dict, k, w), "none", {k})

\* operator[](k), followed when wr holds by the assignment of w to the
\* Value& it returned.
AVL_index(p, k, sz) ==
    IF AVL_contains(p, k) THEN [p |-> p, size |-> sz]
    ELSE AVL_insert(p, <<k, DefaultValue>>, sz)

AVL_index_result(dict, k, wr, w, r) ==
    Result([dict EXCEPT !.root = IF wr THEN AVL_assign(r.p, k, w) ELSE r.p,
                        !.size_m = r.size],
           "none", {AVL_at(r.p, k)[1][1]})

RB_index_result(dict, wr, w, r) ==
    IF r.m.fault # "none" THEN Result(dict, r.m.fault, {})
    ELSE IF r.node = nil THEN Result(Canon(r.m), "out_of_range", {})
    ELSE Result(Canon(IF wr THEN [r.m EXCEPT !.h[r.node].key = <<@[1], w>>] ELSE r.m),
                "none", {r.m.h[r.node].key[1]})

CH_index_result(dict, wr, w, r) ==
    IF r.pos = 0 THEN Result(dict, "undefined", {})
    ELSE Result(IF wr THEN [r.t EXCEPT !.m_table[r.slot + 1][r.pos] = <<@[1], w>>] ELSE r.t,
                "none", {r.t.m_table[r.slot + 1][r.pos][1]})

OH_index_result(dict, wr, w, r) ==
    IF r.err # "none" THEN Result(r.t, r.err, {})
    ELSE IF r.slot = NoIndex THEN Result(dict, "undefined", {})
    ELSE Result(IF wr THEN [r.t EXCEPT !.m_table[r.slot + 1].data = <<@[1], w>>] ELSE r.t,
                "none", {r.t.m_table[r.slot + 1].data[1]})

index(dict, k, wr, w) ==
    CASE dict.eng = "AVL" ->
           AVL_index_result(dict, k, wr, w, AVL_index(dict.root, k, dict.size_m))
      [] dict.eng = "RB" -> RB_index_result(dict, wr, w, RB_index(dict, k))
      [] dict.eng = "CH" -> CH_index_result(dict, wr, w, CH_index(dict, k))
      [] dict.eng = "OH" -> OH_index_result(dict, wr, w, OH_index(dict, k))

\* The pairs that the structure stores, whatever a lookup finds.
Entries(dict) ==
    CASE dict.eng = "AVL" -> AVL_pairs(dict.root)
      [] dict.eng = "RB" -> RB_pairs(dict)
      [] dict.eng = "CH" -> CH_pairs(dict)
      [] dict.eng = "OH" -> OH_pairs(dict)

\* The number of entries that the structure stores.
Count(dict) ==
    CASE dict.eng = "AVL" -> AVL_count(dict.root)
      [] dict.eng = "RB" -> RB_count(dict)
      [] dict.eng = "CH" -> CH_count(dict)
      [] dict.eng = "OH" -> OH_count(dict)

(***************************************************************************)
(* forEach.  The visits are the pairs handed to the visitor, in the order  *)
(* of the calls.  path is the stack of IteratorAVL, its top first.         *)
(***************************************************************************)
\* while (current != nullptr) { path.push(current); current = current->left; }
RECURSIVE IteratorAVL_push(_, _)
IteratorAVL_push(path, current) ==
    IF current = nullptr THEN path
    ELSE IteratorAVL_push(<<current>> \o path, current.left)

\* IteratorAVL(NodePtr root)
IteratorAVL(root) == IteratorAVL_push(<<>>, root)

\* operator++() without the descent along the left links of the right child.
IteratorAVL_next_right(path) ==
    IF Len(path) = 0 THEN path
    ELSE IF Head(path).right # nullptr THEN <<Head(path).right>> \o Tail(path)
    ELSE Tail(path)

\* operator++()
IteratorAVL_next(path) ==
    IF Len(path) = 0 THEN path
    ELSE IF Head(path).right # nullptr THEN IteratorAVL_push(Tail(path), Head(path).right)
    ELSE Tail(path)

\* for (const auto &key : *this) func(key): the loop ends when the iterator
\* equals end(), whose path is empty.
RECURSIVE AVL_forEach_from(_, _)
AVL_forEach_from(path, visits) ==
    IF Len(path) = 0 THEN visits
    ELSE AVL_forEach_from(IteratorAVL_next(path), Append(visits, Head(path).key))

AVL_forEach(root) == AVL_forEach_from(IteratorAVL(root), <<>>)

\* for (bucket : m_table) for (pair : bucket) func(pair)
CH_forEach(t) == Flatten(t.m_table)

\* for (slot : m_table) if (slot.is_active()) func(slot.data)
RECURSIVE OH_forEach_from(_, _, _)
OH_forEach_from(t, i, visits) ==
    IF i > t.m_table_size THEN visits
    ELSE OH_forEach_from(t, i + 1,
                         IF t.m_table[i].status = "ACTIVE"
                           THEN Append(visits, t.m_table[i].data) ELSE visits)

OH_forEach(t) == OH_forEach_from(t, 1, <<>>)

\* forEach of the red-black engine, which the RedBlackTree of this source
\* does not define (IteratorRB is not part of it either): the stack-based
\* in-order cursor over the nodes between root and nil.
RECURSIVE IteratorRB_push(_, _, _, _)
IteratorRB_push(m, path, current, fuel) ==
    IF current = nil THEN path
    ELSE IF current = Freed \/ fuel = 0 THEN <<Freed>> \o path
    ELSE IteratorRB_push(m, <<current>> \o path, Left(m, current), fuel - 1)

RECURSIVE RB_forEach_from(_, _, _, _)
RB_forEach_from(m, path, visits, fuel) ==
    IF Len(path) = 0 THEN [visits |-> visits, err |-> "none"]
    ELSE IF Head(path) = Freed THEN [visits |-> visits, err |-> "undefined"]
    ELSE IF fuel = 0 THEN [visits |-> visits, err |-> "hang"]
    ELSE RB_forEach_from(m, IteratorRB_push(m, Tail(path), Right(m, Head(path)), RBMaxNodes),
                         Append(visits, m.h[Head(path)].key), fuel - 1)

RB_forEach(m) ==
    RB_forEach_from(m, IteratorRB_push(m, <<>>, m.root, RBMaxNodes), <<>>, RBMaxNodes)

forEach(dict) ==
    CASE dict.eng = "AVL" -> [visits |-> AVL_forEach(dict.root), err |-> "none"]
      [] dict.eng = "RB" -> RB_forEach(dict)
      [] dict.eng = "CH" -> [visits |-> CH_forEach(dict), err |-> "none"]
      [] dict.eng = "OH" -> [visits |-> OH_forEach(dict), err |-> "none"]

\* insertUnion(result, node) as the copy constructor calls it: result is the
\* tree under construction, whose sentinel is an object of its own, so no
\* link of the other tree ever equals its nil and every node popped pushes
\* both its links.  The loop ends only when the stack is empty.  (A node
\* that insert leaves unlinked is forgotten at once.)
RECURSIVE RB_insertUnion(_, _, _, _)
RB_insertUnion(result, other, nodes, fuel) ==
    IF Len(nodes) = 0 THEN result
    ELSE IF result.fault # "none" THEN result
    ELSE IF Head(nodes) = Freed THEN [result EXCEPT !.fault = "undefined"]
    ELSE IF fuel = 0 THEN [result EXCEPT !.fault = "hang"]
    ELSE RB_insertUnion(Canon(RB_insert(result, other.h[Head(nodes)].key)), other,
                        <<Right(other, Head(nodes)), Left(other, Head(nodes))>> \o Tail(nodes),
                        fuel - 1)

\* RedBlackTree(const RedBlackTree &other)
RB_copy(other) == RB_insertUnion(RedBlackTree, other, <<other.root>>, RBMaxNodes)

\* insertUnion(result, node) called on the tree m that owns node: a link
\* that is m's nil is not pushed, left is pushed before right.
RECURSIVE RB_insertUnion_this(_, _, _, _)
RB_insertUnion_this(result, m, nodes, fuel) ==
    IF Len(nodes) = 0 THEN result
    ELSE IF result.fault # "none" THEN result
    ELSE IF Head(nodes) = Freed THEN [result EXCEPT !.fault = "undefined"]
    ELSE IF fuel = 0 THEN [result EXCEPT !.fault = "hang"]
    ELSE RB_insertUnion_this(
             Canon(RB_insert(result, m.h[Head(nodes)].key)), m,
             (IF Right(m, Head(nodes)) # nil THEN <<Right(m, Head(nodes))>> ELSE <<>>)
               \o (IF Left(m, Head(nodes)) # nil THEN <<Left(m, Head(nodes))>> ELSE <<>>)
               \o Tail(nodes),
             fuel - 1)

\* Union(other) const: both calls of insertUnion compare with the nil of
\* this tree.  same tells that other is this very object; the links of any
\* other tree end at a nil of its own.
RB_Union_this(m) ==
    IF m.root = nil THEN RedBlackTree
    ELSE RB_insertUnion_this(RedBlackTree, m, <<m.root>>, RBMaxNodes + 1)

RB_Union(m, other, same) ==
    IF same
      THEN IF m.root = nil THEN RB_Union_this(m)
           ELSE RB_insertUnion_this(RB_Union_this(m), m, <<m.root>>, RBMaxNodes + 1)
      ELSE RB_insertUnion(RB_Union_this(m), other, <<other.root>>, RBMaxNodes)

\* clone() of the red-black engine, which the RedBlackTree of this source
\* does not define: a new tree of its own that holds the entries of dict,
\* here inserted in ascending order of key.
MinPair(pairs) == CHOOSE e \in pairs : \A f \in pairs : e[1] <= f[1]

RECURSIVE RB_insertAll(_, _)
RB_insertAll(m, pairs) ==
    IF pairs = {} THEN m
    ELSE RB_insertAll(RB_insert(m, MinPair(pairs)), pairs \ {MinPair(pairs)})

RB_clone(dict) == RB_insertAll(RedBlackTree, RB_pairs(dict))

\* The copy of a node without the copy of its right subtree.
RECURSIVE AVL_clone_left(_)
AVL_clone_left(node_other) ==
    IF node_other = nullptr THEN nullptr
    ELSE Node(node_other.key, node_other.height,
              AVL_clone_left(node_other.left), nullptr)

\* clone_recursive(node_other)
RECURSIVE AVL_clone_recursive(_)
AVL_clone_recursive(node_other) ==
    IF node_other = nullptr THEN nullptr
    ELSE Node(node_other.key, node_other.height,
              AVL_clone_recursive(node_other.left), AVL_clone_recursive(node_other.right))

\* clone(): make_unique<Engine>(*this).  The copy constructor of AVLTree
\* copies the tree node by node; the hash tables have the implicit one, which
\* copies the vector and the counters; the red-black engine is RB_clone.
clone(dict) ==
    CASE dict.eng = "AVL" ->
           Result(IF dict.root # nullptr
                    THEN [AVLTree EXCEPT !.root = AVL_clone_recursive(dict.root),
                                         !.size_m = dict.size_m]
                    ELSE AVLTree, "none", {})
      [] dict.eng = "RB" -> RB_result(dict, RB_clone(dict), {})
      [] dict.eng = "CH" -> Result(dict, "none", {})
      [] dict.eng = "OH" -> Result(dict, "none", {})

(***************************************************************************)
(* The state: the dictionaries of the program (the one constructed and,    *)
(* once clone() was called, its clone), the keys and the values that the   *)
(* program uses, the number of calls it still makes, and the last call:    *)
(* the operation, the dictionary and the key it was given,                 *)
(* whether the key was found before the call, the value it was given or    *)
(* that was written through the returned reference (wr), and the way the   *)
(* call ended.                                                             *)
(***************************************************************************)
VARIABLES dicts, keys, vals, calls, last, threads

vars == <<dicts, keys, vals, calls, last, threads>>

\* The program runs on its main thread alone.
NoThreads == <<>>

RBMaxKey == 6

CloneMaxKey == 2

MaxCalls == 8

\* A program that makes any number of calls.
Unbounded == MaxCalls + 1

Spend(n) == IF n = Unbounded THEN n ELSE n - 1

Call(op, on, k, had, wr, w, r) ==
    [op |-> op, on |-> on, key |-> k, had |-> had, wr |-> wr, val |-> w,
     err |-> r.err, ref |-> r.ref]

\* No call is in progress: the program is between two calls.
Idle == Call("idle", 1, 0, FALSE, FALSE, DefaultValue, Result(<<>>, "none", {}))

Trees == {AVLTree, RedBlackTree}

HashTables ==
    {ChainedHashTable(n, lf) : n \in TableSizes, lf \in LoadFactors}
      \cup {OpenHashTable(n, lf) : n \in TableSizes, lf \in LoadFactors}

Init ==
    /\ \/ dicts = <<AVLTree>> /\ keys = Keys
       \/ dicts = <<RedBlackTree>> /\ keys = Keys
       \/ \E e \in HashTables : dicts = <<e>> /\ keys = Keys
    /\ vals = Values
    /\ calls = Unbounded
    /\ last = Idle
    /\ threads = NoThreads

InitRB ==
    /\ dicts = <<RedBlackTree>>
    /\ keys = 1..RBMaxKey
    /\ vals = {DefaultValue}
    /\ calls = MaxCalls
    /\ last = Idle
    /\ threads = NoThreads

InitClone ==
    /\ \E e \in Trees \cup HashTables : dicts = <<e>>
    /\ keys = 1..CloneMaxKey
    /\ vals = Values
    /\ calls = Unbounded
    /\ last = Idle
    /\ threads = NoThreads

\* The program makes its calls one after the other; new NodeRB needs a free
\* address of the heap.
Running == last = Idle /\ calls > 0

Room(dict) == dict.eng = "RB" => Cardinality(dict.live) < RBMaxNodes

\* Whether a lookup of k ends at an entry.
Has(dict, k) == Lookup(dict, k).err = "none"

\* The call on dictionary i ended as r says.
Done(i, op, k, had, wr, w, r) ==
    /\ dicts' = [dicts EXCEPT ![i] = r.d]
    /\ last' = Call(op, i, k, had, wr, w, r)
    /\ calls' = Spend(calls)
    /\ UNCHANGED <<keys, vals, threads>>

Insert ==
    \E i \in DOMAIN dicts, k \in keys, v \in vals :
        /\ Running /\ Room(dicts[i])
        /\ Done(i, "insert", k, Has(dicts[i], k), FALSE, v, insert(dicts[i], <<k, v>>))

Remove ==
    \E i \in DOMAIN dicts, k \in keys :
        /\ Running
        /\ Done(i, "remove", k, Has(dicts[i], k), FALSE, DefaultValue, remove(dicts[i], k))

Update ==
    \E i \in DOMAIN dicts, k \in keys, v \in vals :
        /\ Running /\ Room(dicts[i])
        /\ Done(i, "update", k, Has(dicts[i], k), FALSE, v, update(dicts[i], <<k, v>>))

\* d[k] read, or d[k] = w
Index ==
    \E i \in DOMAIN dicts, k \in keys :
        /\ Running /\ Room(dicts[i])
        /\ \/ Done(i, "index", k, Has(dicts[i], k), FALSE, DefaultValue,
                   index(dicts[i], k, FALSE, DefaultValue))
           \/ \E w \in vals :
                Done(i, "index", k, Has(dicts[i], k), TRUE, w, index(dicts[i], k, TRUE, w))

\* d.at(k) read, or d.at(k) = w
At ==
    \E i \in DOMAIN dicts, k \in keys :
        /\ Running
        /\ \/ Done(i, "at", k, Has(dicts[i], k), FALSE, DefaultValue,
                   at(dicts[i], k, FALSE, DefaultValue))
           \/ \E w \in vals :
                Done(i, "at", k, Has(dicts[i], k), TRUE, w, at(dicts[i], k, TRUE, w))

Clear ==
    \E i \in DOMAIN dicts :
        /\ Running
        /\ Done(i, "clear", 0, FALSE, FALSE, DefaultValue, clear(dicts[i]))

\* The clone becomes the second dictionary of the program.
Cloned(r) ==
    /\ dicts' = IF r.err = "none" THEN <<dicts[1], r.d>> ELSE dicts
    /\ last' = Call("clone", 1, 0, FALSE, FALSE, DefaultValue, r)
    /\ calls' = Spend(calls)
    /\ UNCHANGED <<keys, vals, threads>>

Clone ==
    /\ Running /\ Len(dicts) = 1
    /\ Cloned(clone(dicts[1]))

\* The call returns to the program, which is done with its result.  A fault
\* ends the program instead.
Return ==
    /\ last # Idle
    /\ last.err \notin {"undefined", "hang", "terminate"}
    /\ last' = Idle
    /\ UNCHANGED <<dicts, keys, vals, calls, threads>>

Next ==
    \/ Return
    \/ Insert
    \/ Remove
    \/ Update
    \/ Index
    \/ At
    \/ Clear

NextClone == Next \/ Clone

Spec == Init /\ [][Next]_vars

SpecRB == InitRB /\ [][Next]_vars

SpecClone == InitClone /\ [][NextClone]_vars

(***************************************************************************)
(* The hash tables from their construction on.  The program constructs one *)
(* table with a table size and a max load factor of its choice, then calls *)
(* the interface and set_max_load_factor on it.  The record of these two   *)
(* calls holds the arguments: the table size and the load factor.          *)
(***************************************************************************)
\* The load factors that the program passes: 0.0f, 0.5f, 0.75f and 1.0f.
ArgLoadFactors == {<<0, 1>>, <<1, 2>>, <<3, 4>>, <<1, 1>>}

HashCall(op, on, n, lf, r) ==
    [op |-> op, on |-> on, size |-> n, lf |-> lf, err |-> r.err, ref |-> r.ref]

set_max_load_factor(dict, lf) ==
    IF dict.eng = "CH" THEN Hash_result(CH_set_max_load_factor(dict, lf))
    ELSE Hash_result(OH_set_max_load_factor(dict, lf))

InitHash ==
    /\ dicts = <<>>
    /\ keys = Keys
    /\ vals = Values
    /\ calls = Unbounded
    /\ last = Idle
    /\ threads = NoThreads

Constructed(n, lf, r) ==
    /\ dicts' = <<r.d>>
    /\ last' = HashCall("construct", 1, n, lf, r)
    /\ calls' = Spend(calls)
    /\ UNCHANGED <<keys, vals, threads>>

\* ChainedHashTable<int, int> t(n, lf);  or  OpenHashTable<int, int> t(n, lf);
Construct ==
    \E n \in TableSizes, lf \in ArgLoadFactors :
        /\ Running /\ dicts = <<>>
        /\ \/ Constructed(n, lf, Result(ChainedHashTable(n, lf), "none", {}))
           \/ Constructed(n, lf, Result(OpenHashTable(n, lf), "none", {}))

SetMaxLoadFactor ==
    \E i \in DOMAIN dicts, lf \in ArgLoadFactors :
        /\ Running
        /\ dicts[i].eng \in {"CH", "OH"}
        /\ dicts' = [dicts EXCEPT ![i] = set_max_load_factor(dicts[i], lf).d]
        /\ last' = HashCall("set_max_load_factor", i, dicts[i].m_table_size, lf,
                            set_max_load_factor(dicts[i], lf))
        /\ calls' = Spend(calls)
        /\ UNCHANGED <<keys, vals, threads>>

NextHash ==
    \/ Next
    \/ Construct
    \/ SetMaxLoadFactor

SpecHash == InitHash /\ [][NextHash]_vars

(***************************************************************************)
(* The trees with their counter of rotations.  The program reads           *)
(* getRotations() after each call; the record of a call holds the          *)
(* rotations that the call performed.                                      *)
(***************************************************************************)
Counted(tree) ==
    IF tree.eng = "AVL"
      THEN [eng |-> "AVL", root |-> tree.root, size_m |-> tree.size_m, rotations |-> 0]
      ELSE [eng |-> "RB", root |-> tree.root, size_m |-> tree.size_m, fault |-> tree.fault,
            live |-> tree.live, h |-> tree.h, rotations |-> 0, log |-> <<>>]

\* The rotations that the call, which ended as r says, performed on dict.
Rotations(dict, op, k, v, r) ==
    IF dict.eng = "RB" THEN r.d.log
    ELSE IF r.err # "none" THEN <<>>
    ELSE CASE op = "insert" -> AVL_insert_log(dict.root, <<k, v>>)
           [] op = "remove" -> AVL_m_remove_log(dict.root, k)
           [] op = "update" -> AVL_update_log(dict.root, <<k, v>>)
           [] op = "index" ->
                IF AVL_contains(dict.root, k) THEN <<>>
                ELSE AVL_insert_log(dict.root, <<k, DefaultValue>>)

\* The tree that the call leaves: each rotation of the AVL tree has
\* incremented its counter, and the log of the red-black tree is that of the
\* call to come.
CountedTree(d, log) ==
    IF d.eng = "AVL" THEN [d EXCEPT !.rotations = @ + Len(log)] ELSE [d EXCEPT !.log = <<>>]

InitCount ==
    /\ \E tree \in Trees : dicts = <<Counted(tree)>>
    /\ keys = Keys
    /\ vals = {DefaultValue}
    /\ calls = MaxCalls
    /\ last = Idle
    /\ threads = NoThreads

DoneCounted(i, op, k, had, v, r) ==
    /\ dicts' = [dicts EXCEPT ![i] = CountedTree(r.d, Rotations(dicts[i], op, k, v, r))]
    /\ last' = [op |-> op, on |-> i, key |-> k, had |-> had, val |-> v, err |-> r.err,
                log |-> Rotations(dicts[i], op, k, v, r)]
    /\ calls' = Spend(calls)
    /\ UNCHANGED <<keys, vals, threads>>

CountedInsert ==
    \E i \in DOMAIN dicts, k \in keys, v \in vals :
        /\ Running /\ Room(dicts[i])
        /\ DoneCounted(i, "insert", k, Has(dicts[i], k), v, insert(dicts[i], <<k, v>>))

CountedRemove ==
    \E i \in DOMAIN dicts, k \in keys :
        /\ Running
        /\ DoneCounted(i, "remove", k, Has(dicts[i], k), DefaultValue, remove(dicts[i], k))

CountedUpdate ==
    \E i \in DOMAIN dicts, k \in keys, v \in vals :
        /\ Running /\ Room(dicts[i])
        /\ DoneCounted(i, "update", k, Has(dicts[i], k), v, update(dicts[i], <<k, v>>))

CountedIndex ==
    \E i \in DOMAIN dicts, k \in keys :
        /\ Running /\ Room(dicts[i])
        /\ DoneCounted(i, "index", k, Has(dicts[i], k), DefaultValue,
                       index(dicts[i], k, FALSE, DefaultValue))

NextCount ==
    \/ Return
    \/ CountedInsert
    \/ CountedRemove
    \/ CountedUpdate
    \/ CountedIndex

SpecCount == InitCount /\ [][NextCount]_vars

(***************************************************************************)
(* A program with two red-black trees that takes the union of one with     *)
(* the other, or with itself.  The tree that Union returns is a temporary  *)
(* that the program inspects: it is part of the record of the call.        *)
(***************************************************************************)
UnionMaxKey == 3

InitUnion ==
    /\ dicts = <<RedBlackTree, RedBlackTree>>
    /\ keys = 1..UnionMaxKey
    /\ vals = Values
    /\ calls = Unbounded
    /\ last = Idle
    /\ threads = NoThreads

Returned(i, j, m) ==
    /\ last' = [op |-> "Union", on |-> i, other |-> j,
                err |-> m.fault, result |-> IF m.fault = "none" THEN Canon(m) ELSE RedBlackTree]
    /\ calls' = Spend(calls)
    /\ UNCHANGED <<dicts, keys, vals, threads>>

Union ==
    \E i \in DOMAIN dicts, j \in DOMAIN dicts :
        /\ Running
        /\ Returned(i, j, RB_Union(dicts[i], dicts[j], i = j))

NextUnion ==
    \/ Return
    \/ Insert
    \/ Remove
    \/ Union

SpecUnion == InitUnion /\ [][NextUnion]_vars

(***************************************************************************)
(* The program of Spec that also iterates over its dictionary: the record  *)
(* of the call holds the pairs that the visitor was given, in order.       *)
(***************************************************************************)
Visited(i, r) ==
    /\ last' = [op |-> "forEach", on |-> i, err |-> r.err, visits |-> r.visits]
    /\ calls' = Spend(calls)
    /\ UNCHANGED <<dicts, keys, vals, threads>>

ForEach ==
    \E i \in DOMAIN dicts :
        /\ Running
        /\ Visited(i, forEach(dicts[i]))

NextEach == Next \/ ForEach

SpecEach == Init /\ [][NextEach]_vars

(***************************************************************************)
(* The program that constructs a hash table and calls rehash(m) on it      *)
(* between inserts and removals.  The record of the call holds m.  Its     *)
(* keys meet in the slots of a table of 4 slots and in those of one of 5.  *)
(***************************************************************************)
MaxRehash == 6

RehashKeys == {0, 1, 4, 10}

RehashTableSizes == {2, 4}

InitRehash ==
    /\ \E n \in RehashTableSizes, lf \in LoadFactors :
          \/ dicts = <<ChainedHashTable(n, lf)>>
          \/ dicts = <<OpenHashTable(n, lf)>>
    /\ keys = RehashKeys
    /\ vals = {DefaultValue}
    /\ calls = Unbounded
    /\ last = Idle
    /\ threads = NoThreads

\* The hash tables are the only engines with rehash.
rehash(dict, m) ==
    IF dict.eng = "CH" THEN Result(CH_rehash(dict, m), "none", {})
    ELSE Hash_result(OH_rehash(dict, m))

Rehash ==
    \E i \in DOMAIN dicts, m \in 0..MaxRehash :
        /\ Running
        /\ dicts' = [dicts EXCEPT ![i] = rehash(dicts[i], m).d]
        /\ last' = HashCall("rehash", i, m, dicts[i].m_max_load_factor, rehash(dicts[i], m))
        /\ calls' = Spend(calls)
        /\ UNCHANGED <<keys, vals, threads>>

NextRehash ==
    \/ Return
    \/ Insert
    \/ Remove
    \/ Rehash

SpecRehash == InitRehash /\ [][NextRehash]_vars

(***************************************************************************)
(* get_next_prime on its own: the program calls it (through rehash) with   *)
(* any size_t.  The record of the call holds the argument and the result.  *)
(***************************************************************************)
InitPrime ==
    /\ dicts = <<>>
    /\ keys = {}
    /\ vals = {}
    /\ calls = Unbounded
    /\ last = Idle
    /\ threads = NoThreads

GetNextPrime ==
    \E x \in 0..SIZE_MAX :
        /\ Running
        /\ last' = [op |-> "get_next_prime", on |-> 1, x |-> x, err |-> "none",
                    prime |-> get_next_prime(x)]
        /\ calls' = Spend(calls)
        /\ UNCHANGED <<dicts, keys, vals, threads>>

NextPrimeStep ==
    \/ Return
    \/ GetNextPrime

SpecPrime == InitPrime /\ [][NextPrimeStep]_vars

(***************************************************************************)
(* The open-addressing table with its counters.  The program reads         *)
(* getComparisons() and getCollisions() before and after each call: the    *)
(* table of the model starts each call with both at 0, and the record of   *)
(* the call holds what the call added to them.                             *)
(***************************************************************************)
Probing(t) ==
    [eng |-> "OH", m_number_of_elements |-> t.m_number_of_elements,
     m_table_size |-> t.m_table_size, m_max_load_factor |-> t.m_max_load_factor,
     m_table |-> t.m_table, comparisons |-> 0, collisions |-> 0]

\* operator[]: findIndex(k), and for a key not found insert and findIndex(k)
\* once more.
OH_index_counted_new(r, k) ==
    IF r.err # "none" THEN r ELSE [t |-> OH_findIndex_counted(r.t, k), err |-> "none"]

OH_index_counted(t, k) ==
    IF OH_findIndex(t, k) # NoIndex THEN [t |-> OH_findIndex_counted(t, k), err |-> "none"]
    ELSE OH_index_counted_new(OH_insert(OH_findIndex_counted(t, k), <<k, DefaultValue>>), k)

InitProbe ==
    /\ \E n \in RehashTableSizes, lf \in LoadFactors : dicts = <<Probing(OpenHashTable(n, lf))>>
    /\ keys = RehashKeys
    /\ vals = {DefaultValue}
    /\ calls = Unbounded
    /\ last = Idle
    /\ threads = NoThreads

Probed(i, op, k, r) ==
    /\ dicts' = [dicts EXCEPT ![i] = Probing(r.t)]
    /\ last' = [op |-> op, on |-> i, key |-> k, err |-> r.err,
                comparisons |-> r.t.comparisons, collisions |-> r.t.collisions]
    /\ calls' = Spend(calls)
    /\ UNCHANGED <<keys, vals, threads>>

ProbedInsert ==
    \E i \in DOMAIN dicts, k \in keys :
        /\ Running
        /\ Probed(i, "insert", k, OH_insert(dicts[i], <<k, DefaultValue>>))

ProbedRemove ==
    \E i \in DOMAIN dicts, k \in keys :
        /\ Running
        /\ Probed(i, "remove", k,
                  [t |-> OH_remove(OH_findIndex_counted(dicts[i], k), k), err |-> "none"])

ProbedUpdate ==
    \E i \in DOMAIN dicts, k \in keys :
        /\ Running
        /\ Probed(i, "update", k, OH_update(OH_findIndex_counted(dicts[i], k), <<k, DefaultValue>>))

ProbedContains ==
    \E i \in DOMAIN dicts, k \in keys :
        /\ Running
        /\ Probed(i, "contains", k, [t |-> OH_findIndex_counted(dicts[i], k), err |-> "none"])

ProbedIndex ==
    \E i \in DOMAIN dicts, k \in keys :
        /\ Running
        /\ Probed(i, "index", k, OH_index_counted(dicts[i], k))

NextProbe ==
    \/ Return
    \/ ProbedInsert
    \/ ProbedRemove
    \/ ProbedUpdate
    \/ ProbedContains
    \/ ProbedIndex

SpecProbe == InitProbe /\ [][NextProbe]_vars

(***************************************************************************)
(* The application in its "all" mode (main of unnamed/part_005 and of      *)
(* src/main/main.cpp).  main creates the four counters and starts one      *)
(* thread of counter_words on each, then joins them.  threads holds the    *)
(* build, whether the input file can be opened, where main is (main, i),   *)
(* where each worker is (pc), the words it has still to count (todo) and   *)
(* the holder of the global mutex mtx (NoHolder when it is unlocked).  A   *)
(* worker stays in a pc for as long as the statements of that stage run.   *)
(***************************************************************************)
Workers == 1..4

NoHolder == 0

Builds == {"part_005", "main.cpp"}

\* The words of the input file, in the order processFile delivers them.
FileWords == <<1, 2>>

\* create_dictionary(DictionaryType(i - 1))
create_dictionary(i) ==
    CASE i = 1 -> AVLTree
      [] i = 2 -> RedBlackTree
      [] i = 3 -> ChainedHashTable(19, <<1, 1>>)
      [] i = 4 -> OpenHashTable(19, <<1, 2>>)

InitAll ==
    /\ dicts = <<>>
    /\ keys = {FileWords[n] : n \in DOMAIN FileWords}
    /\ vals = {DefaultValue + 1}
    /\ calls = Unbounded
    /\ last = Idle
    /\ \E build \in Builds, input \in {"present", "absent"} :
          threads = [build |-> build, input |-> input, main |-> "create", i |-> 1,
                     pc |-> [w \in Workers |-> "unstarted"],
                     todo |-> [w \in Workers |-> FileWords],
                     mtx |-> NoHolder]

\* The process is running: no thread has called exit or std::terminate.
Alive == threads # NoThreads /\ threads.main \in {"create", "join"}

InStage(w, pc) == Alive /\ threads.pc[w] = pc

Goto(w, pc) == [threads EXCEPT !.pc[w] = pc]

\* counters[i] = create_dictionary(...): part_005 creates each counter just
\* before it starts the thread on it, main.cpp creates all four first.
CreateDictionary ==
    /\ Alive /\ threads.main = "create"
    /\ Len(dicts) < 4
    /\ IF threads.build = "part_005" THEN Len(dicts) = threads.i - 1 ELSE threads.i = 1
    /\ dicts' = Append(dicts, create_dictionary(Len(dicts) + 1))
    /\ UNCHANGED <<keys, vals, calls, last, threads>>

\* threads[i] = thread(counter_words, input_file, ref(*counters[i]), name)
StartThread ==
    /\ Alive /\ threads.main = "create"
    /\ Len(dicts) >= threads.i
    /\ threads.build = "main.cpp" => Len(dicts) = 4
    /\ threads' = [threads EXCEPT !.pc[threads.i] = "open",
                                  !.i = IF threads.i = 4 THEN 1 ELSE @ + 1,
                                  !.main = IF threads.i = 4 THEN "join" ELSE @]
    /\ UNCHANGED <<dicts, keys, vals, calls, last>>

\* threads[i].join(), and the return of main after the last one.
Join ==
    /\ Alive /\ threads.main = "join"
    /\ threads.pc[threads.i] = "done"
    /\ threads' = [threads EXCEPT !.i = IF threads.i = 4 THEN @ ELSE @ + 1,
                                  !.main = IF threads.i = 4 THEN "returned" ELSE @]
    /\ UNCHANGED <<dicts, keys, vals, calls, last>>

\* TextProcessor processor(...): the constructor opens the input file; when
\* that fails it goes on to write to std::cerr and to call exit.
OpenInput ==
    \E w \in Workers :
        /\ InStage(w, "open")
        /\ threads' = Goto(w, IF threads.input = "absent" THEN "cerr"
                              ELSE IF threads.build = "part_005" THEN "count" ELSE "lock")
        /\ UNCHANGED <<dicts, keys, vals, calls, last>>

\* std::cerr << "Failed to open file: " ... has been written.
FailedToOpen ==
    \E w \in Workers :
        /\ InStage(w, "cerr")
        /\ threads' = Goto(w, "exit")
        /\ UNCHANGED <<dicts, keys, vals, calls, last>>

\* exit(EXIT_FAILURE) ends the process, whatever the other threads do.
Exit ==
    \E w \in Workers :
        /\ InStage(w, "exit")
        /\ threads' = [threads EXCEPT !.main = "exited"]
        /\ UNCHANGED <<dicts, keys, vals, calls, last>>

\* lock_guard<mutex> lock(mtx)
Lock ==
    \E w \in Workers :
        /\ Alive /\ threads.pc[w] \in {"lock", "relock"}
        /\ threads.mtx = NoHolder
        /\ threads' = [threads EXCEPT !.mtx = w,
                                      !.pc[w] = IF threads.build = "main.cpp" THEN "count"
                                                ELSE IF threads.pc[w] = "lock" THEN "print"
                                                ELSE "write"]
        /\ UNCHANGED <<dicts, keys, vals, calls, last>>

\* word_count[word]++ for the next word of the file.  An exception that
\* leaves the thread function ends the process (std::terminate).
CountWord ==
    \E w \in Workers :
        /\ InStage(w, "count") /\ threads.todo[w] # <<>>
        /\ LET r == index(dicts[w], Head(threads.todo[w]), TRUE, DefaultValue + 1)
           IN  /\ dicts' = [dicts EXCEPT ![w] = r.d]
               /\ threads' = [threads EXCEPT !.todo[w] = Tail(@),
                                             !.main = IF r.err = "none" THEN @ ELSE "terminated"]
        /\ UNCHANGED <<keys, vals, calls, last>>

\* processFile returns at the end of the file.
Counted_all ==
    \E w \in Workers :
        /\ InStage(w, "count") /\ threads.todo[w] = <<>>
        /\ threads' = Goto(w, IF threads.build = "part_005" THEN "lock" ELSE "print")
        /\ UNCHANGED <<dicts, keys, vals, calls, last>>

\* The structure, its entries and the build time have been printed; in
\* part_005 the block ends here and releases mtx.
Printed ==
    \E w \in Workers :
        /\ InStage(w, "print")
        /\ threads' = IF threads.build = "part_005"
                      THEN [threads EXCEPT !.pc[w] = "relock", !.mtx = NoHolder]
                      ELSE Goto(w, "write")
        /\ UNCHANGED <<dicts, keys, vals, calls, last>>

\* write_output has appended the entries and the metrics to the output
\* file, and counter_words returns, releasing mtx.
Written ==
    \E w \in Workers :
        /\ InStage(w, "write")
        /\ threads' = [threads EXCEPT !.pc[w] = "done", !.mtx = NoHolder]
        /\ UNCHANGED <<dicts, keys, vals, calls, last>>

\* write_output could not open the output file: its runtime_error leaves
\* the thread function.
WriteFailed ==
    \E w \in Workers :
        /\ InStage(w, "write")
        /\ threads' = [threads EXCEPT !.main = "terminated"]
        /\ UNCHANGED <<dicts, keys, vals, calls, last>>

NextAll ==
    \/ CreateDictionary
    \/ StartThread
    \/ Join
    \/ OpenInput
    \/ FailedToOpen
    \/ Exit
    \/ Lock
    \/ CountWord
    \/ Counted_all
    \/ Printed
    \/ Written
    \/ WriteFailed

SpecAll == InitAll /\ [][NextAll]_vars

(***************************************************************************)
(* The red-black tree of a program that watches the heap: the tree carries *)
(* the number of nodes that were allocated, never freed and are out of the *)
(* reach of every link (leaked).  The program stops when MaxLeaked nodes   *)
(* have leaked.                                                            *)
(***************************************************************************)
MaxLeaked == 2

LeakMaxKey == 3

Leaking(tree) ==
    [eng |-> tree.eng, root |-> tree.root, size_m |-> tree.size_m, fault |-> tree.fault,
     live |-> tree.live, h |-> tree.h, leaked |-> 0]

InitLeak ==
    /\ dicts = <<Leaking(RedBlackTree)>>
    /\ keys = 1..LeakMaxKey
    /\ vals = Values
    /\ calls = Unbounded
    /\ last = Idle
    /\ threads = NoThreads

Watching == \A i \in DOMAIN dicts : dicts[i].leaked < MaxLeaked

WatchedInsert == Watching /\ Insert

WatchedRemove == Watching /\ Remove

WatchedUpdate == Watching /\ Update

WatchedIndex == Watching /\ Index

NextLeak ==
    \/ Return
    \/ WatchedInsert
    \/ WatchedRemove
    \/ WatchedUpdate
    \/ WatchedIndex

SpecLeak == InitLeak /\ [][NextLeak]_vars

(***************************************************************************)
(* PriorityQueue<int> with std::less (unnamed/part_003): a heap in the     *)
(* vector m_vec, whose position 0 is a placeholder and whose positions     *)
(* 1..heapSize hold the elements.  m_vec[i] of the source is PQ_at(q, i).  *)
(* A read or write of m_vec at a position that it does not have is         *)
(* undefined behaviour: it is recorded as the fault of the queue.          *)
(***************************************************************************)
PriorityQueue == [eng |-> "PQ", m_vec |-> <<DefaultValue>>, heapSize |-> 0, fault |-> "none"]

PQ_parent(pos) == pos \div 2

PQ_left_child(pos) == 2 * pos

PQ_right_child(pos) == (2 * pos) + 1

\* std::less<int>
PQ_compare(a, b) == a < b

PQ_has(q, pos) == pos < Len(q.m_vec)

PQ_at(q, pos) == q.m_vec[pos + 1]

PQ_fault(q) == [q EXCEPT !.fault = "undefined"]

\* std::swap(m_vec[i], m_vec[j])
PQ_swap(q, i, j) ==
    [q EXCEPT !.m_vec = [n \in DOMAIN q.m_vec |->
                            IF n = i + 1 THEN q.m_vec[j + 1]
                            ELSE IF n = j + 1 THEN q.m_vec[i + 1]
                            ELSE q.m_vec[n]]]

\* m_vec.pop_back()
PQ_pop_back(q) == [q EXCEPT !.m_vec = SubSeq(q.m_vec, 1, Len(q.m_vec) - 1)]

RECURSIVE PQ_fixUp(_, _)
PQ_fixUp(q, pos) ==
    IF pos = 1 THEN q
    ELSE IF ~PQ_has(q, PQ_parent(pos)) \/ ~PQ_has(q, pos) THEN PQ_fault(q)
    ELSE IF PQ_compare(PQ_at(q, PQ_parent(pos)), PQ_at(q, pos))
      THEN PQ_fixUp(PQ_swap(q, pos, PQ_parent(pos)), PQ_parent(pos))
    ELSE q

\* The position that fixDown moves index to: iCompare.
PQ_iCompare_left(q, pos) ==
    IF PQ_compare(PQ_at(q, pos), PQ_at(q, PQ_left_child(pos)))
      THEN PQ_left_child(pos) ELSE pos

PQ_iCompare(q, pos) ==
    IF PQ_right_child(pos) <= q.heapSize
         /\ PQ_compare(PQ_at(q, PQ_iCompare_left(q, pos)), PQ_at(q, PQ_right_child(pos)))
      THEN PQ_right_child(pos) ELSE PQ_iCompare_left(q, pos)

RECURSIVE PQ_fixDown(_, _)
PQ_fixDown(q, pos) ==
    IF PQ_left_child(pos) > q.heapSize THEN q
    ELSE IF ~PQ_has(q, pos) \/ ~PQ_has(q, PQ_left_child(pos)) THEN PQ_fault(q)
    ELSE IF PQ_right_child(pos) <= q.heapSize /\ ~PQ_has(q, PQ_right_child(pos))
      THEN PQ_fault(q)
    ELSE IF PQ_iCompare(q, pos) # pos
      THEN PQ_fixDown(PQ_swap(q, pos, PQ_iCompare(q, pos)), PQ_iCompare(q, pos))
    ELSE q

\* What a call on the queue yields: the queue after it, how it ended and
\* the value it returned, if any.
PQ_result(q0, q, err, value) ==
    IF q.fault # "none" THEN [q |-> q0, err |-> q.fault, value |-> <<>>]
    ELSE [q |-> q, err |-> err, value |-> value]

PQ_push(q, value) ==
    PQ_result(q, PQ_fixUp([q EXCEPT !.m_vec = Append(@, value), !.heapSize = @ + 1],
                          q.heapSize + 1),
              "none", <<>>)

PQ_top(q) ==
    IF q.heapSize = 0 THEN PQ_result(q, q, "underflow_error", <<>>)
    ELSE IF ~PQ_has(q, 1) THEN PQ_result(q, PQ_fault(q), "none", <<>>)
    ELSE PQ_result(q, q, "none", <<PQ_at(q, 1)>>)

\* pop once the queue is known to hold an element: the swap, fixDown(1) and
\* pop_back.
PQ_pop_root(q) ==
    IF ~PQ_has(q, 1) \/ ~PQ_has(q, q.heapSize) THEN PQ_fault(q)
    ELSE PQ_pop_back(PQ_fixDown([PQ_swap(q, 1, q.heapSize) EXCEPT !.heapSize = @ - 1], 1))

PQ_pop(q) ==
    IF q.heapSize = 0 THEN PQ_result(q, q, "underflow_error", <<>>)
    ELSE PQ_result(q, PQ_pop_root(q), "none",
                   IF PQ_has(q, 1) THEN <<PQ_at(q, 1)>> ELSE <<>>)

\* remove once the element at index went to the end and was popped: the
\* test of the element now at index against its parent, then fixUp or
\* fixDown.
PQ_remove_fix(q, pos) ==
    IF ~PQ_has(q, PQ_parent(pos)) \/ ~PQ_has(q, pos) THEN PQ_fault(q)
    ELSE IF PQ_compare(PQ_at(q, PQ_parent(pos)), PQ_at(q, pos)) THEN PQ_fixUp(q, pos)
    ELSE PQ_fixDown(q, pos)

PQ_remove(q, pos) ==
    IF pos < 1 \/ pos > q.heapSize THEN PQ_result(q, q, "out_of_range", <<>>)
    ELSE IF ~PQ_has(q, q.heapSize) THEN PQ_result(q, PQ_fault(q), "none", <<>>)
    ELSE PQ_result(q, PQ_remove_fix(PQ_pop_back([PQ_swap(q, pos, q.heapSize)
                                                   EXCEPT !.heapSize = @ - 1]),
                                    pos),
                   "none", <<>>)

PQ_clear(q) == PQ_result(q, [q EXCEPT !.m_vec = <<>>, !.heapSize = 0], "none", <<>>)

(***************************************************************************)
(* A program with a queue of its own: it pushes, pops, reads the top and   *)
(* removes at a position.  The record of a call holds the value pushed or  *)
(* the position removed (arg) and the value returned.                      *)
(***************************************************************************)
PQMaxSize == 4

PQMaxVal == 3

InitQueue ==
    /\ dicts = <<PriorityQueue>>
    /\ keys = 1..PQMaxSize
    /\ vals = 1..PQMaxVal
    /\ calls = Unbounded
    /\ last = Idle
    /\ threads = NoThreads

Queued(i, op, arg, r) ==
    /\ dicts' = [dicts EXCEPT ![i] = r.q]
    /\ last' = [op |-> op, on |-> i, arg |-> arg, err |-> r.err, value |-> r.value]
    /\ calls' = Spend(calls)
    /\ UNCHANGED <<keys, vals, threads>>

Push ==
    \E i \in DOMAIN dicts, v \in vals :
        /\ Running /\ dicts[i].heapSize < PQMaxSize
        /\ Queued(i, "push", v, PQ_push(dicts[i], v))

Pop ==
    \E i \in DOMAIN dicts :
        /\ Running
        /\ Queued(i, "pop", 0, PQ_pop(dicts[i]))

Top ==
    \E i \in DOMAIN dicts :
        /\ Running
        /\ Queued(i, "top", 0, PQ_top(dicts[i]))

RemoveIndex ==
    \E i \in DOMAIN dicts, pos \in keys :
        /\ Running
        /\ Queued(i, "remove", pos, PQ_remove(dicts[i], pos))

ClearQueue ==
    \E i \in DOMAIN dicts :
        /\ Running
        /\ Queued(i, "clear", 0, PQ_clear(dicts[i]))

NextQueue ==
    \/ Return
    \/ Push
    \/ Pop
    \/ Top
    \/ RemoveIndex

SpecQueue == InitQueue /\ [][NextQueue]_vars

NextCleared ==
    \/ Return
    \/ Push
    \/ Pop
    \/ Top
    \/ ClearQueue

SpecCleared == InitQueue /\ [][NextCleared]_vars

(***************************************************************************)
(* What a step of a call shows: the dictionary it was made on before and   *)
(* after it, and the map that lookups find in a dictionary.                *)
(***************************************************************************)
Pre == dicts[last'.on]

Post == dicts'[last'.on]

Step(op) == last = Idle /\ last'.op = op

\* The pairs that at() finds for the keys of the program.
Map(dict) == {Lookup(dict, k).pair[1] : k \in {x \in keys : Has(dict, x)}}

\* The map m with the value of key k set to v.
Put(m, k, v) == {e \in m : e[1] # k} \cup {<<k, v>>}

\* The value that at(k) finds.
ValueOf(dict, k) == Lookup(dict, k).pair[1][2]

(***************************************************************************)
(* C1: in every engine the index operator returns a reference to the value *)
(* stored under exactly the key it was given: when the key was absent, an  *)
(* entry with the default value is inserted and size() grows by one, and a *)
(* value written through the reference is what at(k) then returns.         *)
(***************************************************************************)
C1_IndexDesignatesKey ==
    [][Step("index") =>
         /\ last'.err = "none"
         /\ last'.ref = {last'.key}
         /\ Has(Post, last'.key)
         /\ size(Post) = IF last'.had THEN size(Pre) ELSE size(Pre) + 1
         /\ ValueOf(Post, last'.key) =
              IF last'.wr THEN last'.val
              ELSE IF last'.had THEN ValueOf(Pre, last'.key)
              ELSE DefaultValue]_vars

(***************************************************************************)
(* C2: in each of the four engines update on an absent key fails with      *)
(* out_of_range and leaves the entries and the size unchanged; on a        *)
(* present key it replaces the value of that key and nothing else.         *)
(***************************************************************************)
C2_UpdateAbsentThrows ==
    [][Step("update") =>
         IF last'.had
           THEN /\ last'.err = "none"
                /\ Map(Post) = Put(Map(Pre), last'.key, last'.val)
                /\ size(Post) = size(Pre)
           ELSE /\ last'.err = "out_of_range"
                /\ Entries(Post) = Entries(Pre)
                /\ size(Post) = size(Pre)]_vars

(***************************************************************************)
(* C3: in both hash engines load_factor() <= max_load_factor() holds       *)
(* immediately after every insert.                                         *)
(***************************************************************************)
C3_LoadFactorAfterInsert ==
    [][(Step("insert") /\ Post.eng \in {"CH", "OH"}) => LoadFactorLE(Post)]_vars

\* Every node records its height and its two subtrees differ by at most one.
RECURSIVE AVL_balanced(_)
AVL_balanced(p) ==
    \/ p = nullptr
    \/ /\ p.height = AVL_depth(p)
       /\ balance(p) \in {0 - 1, 0, 1}
       /\ AVL_balanced(p.left)
       /\ AVL_balanced(p.right)

RB_blackJoin(l, r, c) ==
    IF l < 0 \/ l # r THEN 0 - 1 ELSE IF c = "BLACK" THEN l + 1 ELSE l

\* The number of BLACK nodes on every path from x down to nil, or -1 when
\* two paths differ or a path does not end in nil.
RECURSIVE RB_blackHeight(_, _, _)
RB_blackHeight(m, x, fuel) ==
    IF x = nil THEN 0
    ELSE IF x = Freed \/ fuel = 0 THEN 0 - 1
    ELSE RB_blackJoin(RB_blackHeight(m, Left(m, x), fuel - 1),
                      RB_blackHeight(m, Right(m, x), fuel - 1), Color(m, x))

RB_valid(m) ==
    /\ Color(m, nil) = "BLACK"
    /\ m.root # Freed
    /\ Color(m, m.root) = "BLACK"
    /\ \A x \in RB_nodes(m) :
         Color(m, x) = "RED" =>
             Color(m, Left(m, x)) = "BLACK" /\ Color(m, Right(m, x)) = "BLACK"
    /\ RB_blackHeight(m, m.root, RBMaxNodes + 1) >= 0

(***************************************************************************)
(* C5: after every insert and every removal on a red-black tree, the root  *)
(* and the sentinel nil are BLACK, no RED node has a RED parent, and every *)
(* path from the root to nil has the same number of BLACK nodes.           *)
(***************************************************************************)
C5_RedBlackProperties ==
    [][((Step("insert") \/ Step("remove")) /\ Post.eng = "RB")
         => (last'.err = "none" /\ RB_valid(Post))]_vars

(***************************************************************************)
(* C6: in every engine and after any sequence of calls, size() is the      *)
(* number of entries stored (nodes reachable from the root, chain entries, *)
(* ACTIVE slots), and empty() is true exactly when size() is 0.            *)
(***************************************************************************)
C6_SizeCountsEntries ==
    \A i \in DOMAIN dicts :
        /\ size(dicts[i]) = Count(dicts[i])
        /\ empty(dicts[i]) <=> (size(dicts[i]) = 0)

(***************************************************************************)
(* C7: in every engine, insert of a pair whose key is present leaves       *)
(* size(), the value stored under that key and every other entry           *)
(* unchanged, also when the call grows the hash table.                     *)
(***************************************************************************)
C7_DuplicateInsertKeepsFirst ==
    [][(Step("insert") /\ last'.had) =>
         /\ last'.err = "none"
         /\ size(Post) = size(Pre)
         /\ Map(Post) = Map(Pre)
         /\ Entries(Post) = Entries(Pre)]_vars

\* A pair with a present key and another value was inserted into a chained
\* hash table that has grown, and the value of the first insert is stored.
C7_Witness ==
    /\ last.op = "insert"
    /\ last.had
    /\ last.err = "none"
    /\ dicts[last.on].eng = "CH"
    /\ dicts[last.on].m_table_size > MaxTableSize
    /\ ValueOf(dicts[last.on], last.key) # last.val

(***************************************************************************)
(* C8: in every engine, remove(k) of a present key decreases size() by     *)
(* one, makes k absent and leaves every other key present with its value;  *)
(* remove(k) of an absent key changes no entry and not size().             *)
(***************************************************************************)
C8_RemoveFrame ==
    [][Step("remove") =>
         /\ last'.err = "none"
         /\ size(Post) = IF last'.had THEN size(Pre) - 1 ELSE size(Pre)
         /\ Map(Post) = {e \in Map(Pre) : e[1] # last'.key}
         /\ Entries(Post) = {e \in Entries(Pre) : e[1] # last'.key}]_vars

\* The map after the call c on the map m.
AbstractCall(m, c) ==
    CASE c.op = "insert" -> IF c.had THEN m ELSE Put(m, c.key, c.val)
      [] c.op = "remove" -> {e \in m : e[1] # c.key}
      [] c.op = "update" -> IF c.had THEN Put(m, c.key, c.val) ELSE m
      [] c.op = "index" ->
           IF c.wr THEN Put(m, c.key, c.val)
           ELSE IF c.had THEN m ELSE Put(m, c.key, DefaultValue)
      [] c.op = "at" -> IF c.had /\ c.wr THEN Put(m, c.key, c.val) ELSE m
      [] c.op = "clear" -> {}
      [] OTHER -> m

(***************************************************************************)
(* C9: every engine behaves as a map from keys to values: after each call  *)
(* contains(k) is true exactly for the keys inserted and not removed       *)
(* since, at(k) finds for such a key the value of its first insert or of   *)
(* its latest update or write, and at(k) on another key fails with         *)
(* out_of_range.                                                           *)
(***************************************************************************)
C9_AbstractMap ==
    [][(last = Idle /\ last' # Idle /\ last'.op # "clone") =>
         /\ last'.err \in {"none", "out_of_range"}
         /\ Map(Post) = AbstractCall(Map(Pre), last')
         /\ \A k \in keys : contains(Post, k) <=> (\E e \in Map(Post) : e[1] = k)
         /\ last'.op = "at" =>
              (last'.err = IF last'.had THEN "none" ELSE "out_of_range")]_vars

\* contains, at and size answer the same on d and on e.
SameAnswers(d, e) ==
    /\ Map(d) = Map(e)
    /\ size(d) = size(e)
    /\ \A k \in keys : contains(d, k) <=> contains(e, k)

C11_TombstonesKeepSurvivors ==
    [][(Step("remove") /\ Pre.eng = "OH") =>
         /\ last'.err = "none"
         /\ ~contains(Post, last'.key)
         /\ ~Has(Post, last'.key)
         /\ \A e \in Entries(Pre) :
              e[1] # last'.key =>
                  /\ contains(Post, e[1])
                  /\ Lookup(Post, e[1]) = Found(<<e>>)
         /\ last'.had =>
              Post.m_table[OH_findIndex(Pre, last'.key) + 1].status = "DELETED"]_vars

\* A key was removed and another key is found past the DELETED slot that the
\* removed key has left, the first slot of its own probe sequence.
C11_Witness ==
    /\ last.op = "remove"
    /\ last.had
    /\ dicts[last.on].eng = "OH"
    /\ \E k2 \in keys :
         /\ contains(dicts[last.on], k2)
         /\ dicts[last.on].m_table[OH_hash_code(dicts[last.on], k2, 0) + 1].status = "DELETED"
         /\ dicts[last.on].m_table[OH_hash_code(dicts[last.on], k2, 0) + 1].data[1] = last.key

(***************************************************************************)
(* C12: on a ChainedHashTable of table size 2 and max load factor 0.75     *)
(* that holds key 1, insert of key 2 grows the table during the call;      *)
(* afterwards size() is 2 and both keys are found with their values.       *)
(***************************************************************************)
C12_SecondInsertRehashes ==
    [][(/\ Step("insert")
        /\ Pre.eng = "CH"
        /\ Pre.m_table_size = 2
        /\ Pre.m_max_load_factor = <<3, 4>>
        /\ {e[1] : e \in Entries(Pre)} = {1}
        /\ last'.key = 2) =>
         /\ Post.m_table_size > Pre.m_table_size
         /\ size(Post) = 2
         /\ Map(Post) = Entries(Pre) \cup {<<2, last'.val>>}]_vars

IsPrime(n) == n > 1 /\ \A d \in 2..(n - 1) : n % d # 0

(***************************************************************************)
(* C13: the table size of both hash engines is a prime number after every  *)
(* call: the constructor takes the least prime that is not below the size  *)
(* it was given, and rehash and clear leave a prime size.                  *)
(***************************************************************************)
C13_TableSizePrime ==
    [][(last = Idle /\ last' # Idle /\ Post.eng \in {"CH", "OH"}) =>
         /\ IsPrime(Post.m_table_size)
         /\ last'.op = "construct" =>
              /\ Post.m_table_size >= last'.size
              /\ \A n \in last'.size..(Post.m_table_size - 1) : ~IsPrime(n)]_vars

(***************************************************************************)
(* C15: a max load factor that is not positive is an error of the call     *)
(* that was given it, the constructor or set_max_load_factor; after the    *)
(* rejected set_max_load_factor the table is as it was.                    *)
(***************************************************************************)
C15_NonPositiveLoadFactorRejected ==
    [][/\ (Step("construct") /\ last'.lf[1] <= 0) => last'.err # "none"
       /\ (Step("set_max_load_factor") /\ last'.lf[1] <= 0) =>
              (last'.err # "none" /\ Post = Pre)]_vars

(***************************************************************************)
(* C16: insert and operator[] of the open-addressing table never end with  *)
(* the table-full failure, whatever table size and max load factor the     *)
(* table was constructed with.                                             *)
(***************************************************************************)
C16_NeverTableFull ==
    [][((Step("insert") \/ Step("index")) /\ Pre.eng = "OH") =>
         last'.err # "out_of_range"]_vars

(***************************************************************************)
(* C14: in both tree engines every call adds to the counter of rotations   *)
(* exactly the number of single rotations that the call performed, a       *)
(* double rotation counting two, in insertion and deletion fix-up alike;   *)
(* so the counter is at any time the number of rotations performed.        *)
(***************************************************************************)
C14_RotationsCounted ==
    [][(last = Idle /\ last' # Idle) =>
         Post.rotations = Pre.rotations + Len(last'.log)]_vars

\* The binary search tree that holds kv below p when no node is rebalanced,
\* each node with the height that its subtrees give it.
RECURSIVE BST_insert(_, _)
BST_insert(p, kv) ==
    IF p = nullptr THEN Node(kv, 1, nullptr, nullptr)
    ELSE IF kv[1] = p.key[1] THEN p
    ELSE IF kv[1] < p.key[1]
      THEN Node(p.key, 1 + Max(AVL_depth(BST_insert(p.left, kv)), AVL_depth(p.right)),
                BST_insert(p.left, kv), p.right)
      ELSE Node(p.key, 1 + Max(AVL_depth(p.left), AVL_depth(BST_insert(p.right, kv))),
                p.left, BST_insert(p.right, kv))

\* The lowest node on the path from p to key k whose balance is -2 or 2, or
\* nullptr when the path has none.
RECURSIVE Unbalanced(_, _)
Unbalanced(p, k) ==
    IF p = nullptr \/ k = p.key[1] THEN nullptr
    ELSE IF Unbalanced(IF k < p.key[1] THEN p.left ELSE p.right, k) # nullptr
      THEN Unbalanced(IF k < p.key[1] THEN p.left ELSE p.right, k)
    ELSE IF balance(p) \in {0 - 2, 2} THEN p
    ELSE nullptr

\* The rotations that node q is to receive.
RotationsFor(q) ==
    IF q = nullptr THEN <<>>
    ELSE IF balance(q) = 0 - 2
      THEN IF height(q.left.left) > height(q.left.right) THEN <<"right">>
           ELSE <<"left", "right">>
      ELSE IF height(q.right.right) > height(q.right.left) THEN <<"left">>
           ELSE <<"right", "left">>

(***************************************************************************)
(* C18: on insert into an AVL tree, the node whose balance becomes -2      *)
(* receives one right rotation when the left subtree of its left child is  *)
(* the taller, and a left rotation of that child followed by a right       *)
(* rotation when the right subtree of its left child is the taller         *)
(* (mirrored for 2), and these are all the rotations of the call.  So the  *)
(* third of three inserts in descending order of key (30, 20, 10) performs *)
(* exactly one right rotation: the middle key is at the root, size() is 3  *)
(* and the three keys are stored.                                          *)
(***************************************************************************)
C18_InsertRotations ==
    [][(Step("insert") /\ Pre.eng = "AVL") =>
         /\ last'.log =
              RotationsFor(Unbalanced(BST_insert(Pre.root, <<last'.key, last'.val>>), last'.key))
         /\ (/\ Pre.size_m = 2
             /\ Pre.root.left # nullptr
             /\ last'.key < Pre.root.left.key[1]) =>
                /\ last'.log = <<"right">>
                /\ Post.rotations = Pre.rotations + 1
                /\ Post.root.key = Pre.root.left.key
                /\ size(Post) = 3
                /\ Entries(Post) = Entries(Pre) \cup {<<last'.key, last'.val>>}]_vars

\* Keys 3, 2 and 1 were inserted in this order: the last insert has performed
\* one right rotation, the first rotation of the tree, and 2 is at the root.
C18_Witness ==
    /\ last.op = "insert"
    /\ dicts[last.on].eng = "AVL"
    /\ last.key = 1
    /\ last.log = <<"right">>
    /\ dicts[last.on].rotations = 1
    /\ dicts[last.on].size_m = 3
    /\ dicts[last.on].root.key[1] = 2
    /\ dicts[last.on].root.right.key[1] = 3

\* The height that every node below p caches is the one that the heights
\* cached in its children give.
RECURSIVE AVL_heights(_)
AVL_heights(p) ==
    \/ p = nullptr
    \/ /\ p.height = 1 + Max(height(p.left), height(p.right))
       /\ AVL_heights(p.left)
       /\ AVL_heights(p.right)

PairsOfUnion(a, b) ==
    RB_pairs(a) \cup {e \in RB_pairs(b) : \A f \in RB_pairs(a) : f[1] # e[1]}

C17_UnionOfBoth ==
    [][Step("Union") =>
         /\ last'.err = "none"
         /\ RB_pairs(last'.result) = PairsOfUnion(Pre, dicts[last'.other])
         /\ RB_valid(last'.result)
         /\ dicts' = dicts]_vars


(***************************************************************************)
(* C19: forEach returns after it has handed to the visitor each entry that *)
(* the dictionary stores, once, and nothing else; the visits of a tree     *)
(* engine are in strictly ascending order of key.                          *)
(***************************************************************************)
Ascending(visits) == \A i \in 1..(Len(visits) - 1) : visits[i][1] < visits[i + 1][1]

OncePerKey(visits) ==
    \A i \in 1..Len(visits), j \in 1..Len(visits) : visits[i][1] = visits[j][1] => i = j

NextPrime(x) ==
    IF x <= 2 THEN 3 ELSE CHOOSE p \in x..(2 * x) : IsPrime(p) /\ \A q \in x..(p - 1) : ~IsPrime(q)

(***************************************************************************)
(* C21: rehash(m) of a hash table never decreases the table size, changes  *)
(* it only when next_prime(m) exceeds it, keeps the entries and size(),    *)
(* and the open-addressing table it rebuilt has no DELETED slot.           *)
(***************************************************************************)
C21_RehashKeepsEntries ==
    [][Step("rehash") =>
         /\ last'.err = "none"
         /\ Post.m_table_size >= Pre.m_table_size
         /\ Post.m_table_size # Pre.m_table_size => NextPrime(last'.size) > Pre.m_table_size
         /\ NextPrime(last'.size) > Pre.m_table_size => Post.m_table_size # Pre.m_table_size
         /\ Entries(Post) = Entries(Pre)
         /\ size(Post) = size(Pre)
         /\ (Post.eng = "OH" /\ Post.m_table_size # Pre.m_table_size)
              => \A i \in 1..Post.m_table_size : Post.m_table[i].status # "DELETED"]_vars


(***************************************************************************)
(* C22: get_next_prime(x) returns 3 for x <= 2 and, for every greater x,   *)
(* the least prime number that is not below x.                             *)
(***************************************************************************)
C22_LeastPrimeNotBelow ==
    [][Step("get_next_prime") =>
         /\ last'.x <= 2 => last'.prime = 3
         /\ last'.x > 2 =>
              /\ IsPrime(last'.prime)
              /\ last'.prime >= last'.x
              /\ \A q \in last'.x..(last'.prime - 1) : ~IsPrime(q)]_vars


\* The ACTIVE slots that the probe for k meets from attempt i on, up to the
\* slot that holds k or the first EMPTY slot; with other, only those that
\* hold another key.
RECURSIVE ActiveMet(_, _, _, _)
ActiveMet(t, k, i, other) ==
    IF i >= t.m_table_size THEN 0
    ELSE LET slot == t.m_table[((k + i * i) % t.m_table_size) + 1]
         IN  CASE slot.status = "EMPTY" -> 0
               [] slot.status = "DELETED" -> ActiveMet(t, k, i + 1, other)
               [] slot.status = "ACTIVE" /\ slot.data[1] = k -> IF other THEN 0 ELSE 1
               [] OTHER -> 1 + ActiveMet(t, k, i + 1, other)

(***************************************************************************)
(* C23: a call on the open-addressing table adds to comparisons one for    *)
(* each ACTIVE slot that its probes compare with the key and nothing for   *)
(* an EMPTY or a DELETED slot; it adds to collisions one for each ACTIVE   *)
(* slot with another key that the probe of insert meets, and nothing else. *)
(* (Stated for the calls that do not rehash.)                              *)
(***************************************************************************)
C23_CountersCountActive ==
    [][/\ (Step("contains") \/ Step("remove") \/ Step("update")) =>
             /\ last'.comparisons = ActiveMet(Pre, last'.key, 0, FALSE)
             /\ last'.collisions = 0
       /\ (Step("insert") /\ Post.m_table_size = Pre.m_table_size) =>
             /\ last'.comparisons = ActiveMet(Pre, last'.key, 0, FALSE)
             /\ last'.collisions = ActiveMet(Pre, last'.key, 0, TRUE)
       /\ (Step("index") /\ Post.m_table_size = Pre.m_table_size /\ last'.err = "none") =>
             /\ last'.comparisons =
                  IF Has(Pre, last'.key) THEN ActiveMet(Pre, last'.key, 0, FALSE)
                  ELSE 2 * ActiveMet(Pre, last'.key, 0, FALSE) + ActiveMet(Post, last'.key, 0, FALSE)
             /\ last'.collisions =
                  IF Has(Pre, last'.key) THEN 0 ELSE ActiveMet(Pre, last'.key, 0, TRUE)]_vars


\* The links of the tree m agree.
RB_children(m, x) == {Left(m, x), Right(m, x)} \ {nil}

RB_linked(m) ==
    /\ m.root # nil => Up(m, m.root) = nil
    /\ \A x \in RB_nodes(m) : \A c \in RB_children(m, x) : c # Freed /\ Up(m, c) = x
    /\ \A x \in RB_nodes(m) : Left(m, x) = Right(m, x) => Left(m, x) = nil
    /\ \A x \in RB_nodes(m), y \in RB_nodes(m) :
         x # y => RB_children(m, x) \cap RB_children(m, y) = {}
    /\ \A x \in RB_nodes(m) : m.root \notin RB_children(m, x)
    /\ Left(m, nil) = nil
    /\ Right(m, nil) = nil

(***************************************************************************)
(* C24: after every insert and every removal on a red-black tree the       *)
(* parent of every child of a node is that node, the parent of the root is *)
(* nil, no node is the child of two nodes, and the left and right links of *)
(* nil designate nil.                                                      *)
(***************************************************************************)
C24_LinksAgree ==
    [][((Step("insert") \/ Step("remove")) /\ Post.eng = "RB")
         => (last'.err = "none" /\ RB_linked(Post))]_vars

\* The objects of the process that the threads can reach.
console == <<"console", 0>>

output_file == <<"file", 0>>

counter(w) == <<"counter", w>>

\* The objects that worker w reads or writes in the stage it is in.
Touched(w) ==
    LET pc == threads.pc[w]
    IN  CASE pc = "cerr" -> {console}
          [] pc = "count" -> {counter(w)}
                               \cup (IF threads.build = "main.cpp" THEN {console} ELSE {})
          [] pc = "print" -> {console, counter(w)}
          [] pc = "write" -> {output_file, counter(w)}
          [] OTHER -> {}

\* C25: in the "all" mode no two workers touch the same object at the same
\* time, a worker touches the console or the output file only while it
\* holds the global mutex, and main returns only after all four workers
\* have finished.
C25_WorkersShareNothing ==
    threads # NoThreads =>
        /\ \A v, w \in Workers : v # w => Touched(v) \cap Touched(w) = {}
        /\ \A w \in Workers :
              Touched(w) \cap {console, output_file} # {} => threads.mtx = w
        /\ threads.main = "returned" => \A w \in Workers : threads.pc[w] = "done"

\* The same, for the runs whose input file can be opened.
C25_WhenInputOpens ==
    (threads # NoThreads /\ threads.input = "present") => C25_WorkersShareNothing

\* The slot that probe attempt i of key k looks at.
Probe(t, k, i) == t.m_table[((k + i * i) % t.m_table_size) + 1]

\* The number of slots that a lookup of k looks at from attempt i on.
RECURSIVE Examined(_, _, _)
Examined(t, k, i) ==
    IF i >= t.m_table_size THEN 0
    ELSE IF Probe(t, k, i).status = "EMPTY" THEN 1
    ELSE IF Probe(t, k, i).status = "ACTIVE" /\ Probe(t, k, i).data[1] = k THEN 1
    ELSE 1 + Examined(t, k, i + 1)

\* No probe of k meets an EMPTY slot or the key: all of them are ACTIVE with
\* another key, or DELETED.
FullProbe(t, k) ==
    \A i \in 0..(t.m_table_size - 1) :
        /\ Probe(t, k, i).status # "EMPTY"
        /\ ~(Probe(t, k, i).status = "ACTIVE" /\ Probe(t, k, i).data[1] = k)

Stored(t, k) ==
    \E s \in DOMAIN t.m_table : t.m_table[s].status = "ACTIVE" /\ t.m_table[s].data[1] = k

(***************************************************************************)
(* C26: a lookup, remove, update or insert on the open-addressing table    *)
(* returns after it has looked at no more slots than the table has, also   *)
(* when no slot on the probe path is EMPTY; a lookup that has looked at    *)
(* table_size slots without meeting the key reports it absent (and the key *)
(* is then in no slot of the table).  (For insert: the probe of the call,  *)
(* when it does not rehash.)                                               *)
(***************************************************************************)
C26_ProbesEnd ==
    [][/\ (Step("contains") \/ Step("remove") \/ Step("update")) =>
             /\ last'.err \in {"none", "out_of_range"}
             /\ last'.comparisons <= Examined(Pre, last'.key, 0)
             /\ Examined(Pre, last'.key, 0) <= Pre.m_table_size
             /\ FullProbe(Pre, last'.key) =>
                  /\ last'.comparisons = Pre.m_table_size
                  /\ ~OH_contains(Pre, last'.key)
                  /\ ~Stored(Pre, last'.key)
                  /\ Step("update") => last'.err = "out_of_range"
                  /\ Step("remove") => Post.m_table = Pre.m_table
       /\ (Step("insert") /\ Post.m_table_size = Pre.m_table_size) =>
             /\ last'.err \in {"none", "out_of_range"}
             /\ last'.comparisons <= Pre.m_table_size
             /\ FullProbe(Pre, last'.key) /\ last'.err = "none" =>
                  \E i \in 0..(Pre.m_table_size - 1) : Probe(Pre, last'.key, i).status = "DELETED"]_vars

\* A lookup has gone through a probe path without an EMPTY slot.
C26_Witness ==
    /\ last.op = "contains"
    /\ FullProbe(dicts[last.on], last.key)
    /\ last.comparisons = dicts[last.on].m_table_size
    /\ \E s \in DOMAIN dicts[last.on].m_table : dicts[last.on].m_table[s].status = "DELETED"

\* The keys of the AVL subtree p.
RECURSIVE AVL_keys(_)
AVL_keys(p) ==
    IF p = nullptr THEN {}
    ELSE {p.key[1]} \cup AVL_keys(p.left) \cup AVL_keys(p.right)

\* Every node of p has the smaller keys on its left and the larger on its right.
RECURSIVE AVL_ordered(_)
AVL_ordered(p) ==
    \/ p = nullptr
    \/ /\ \A k \in AVL_keys(p.left) : k < p.key[1]
       /\ \A k \in AVL_keys(p.right) : k > p.key[1]
       /\ AVL_ordered(p.left)
       /\ AVL_ordered(p.right)

\* The keys of the nodes below the link x of the red-black tree m.
RB_keys(m, x) == {m.h[y].key[1] : y \in RB_reach(m, <<x>>, {})}

RB_ordered(m) ==
    \A x \in RB_nodes(m) :
        /\ \A k \in RB_keys(m, Left(m, x)) : k < m.h[x].key[1]
        /\ \A k \in RB_keys(m, Right(m, x)) : k > m.h[x].key[1]

Ordered(dict) ==
    CASE dict.eng = "AVL" -> AVL_ordered(dict.root)
      [] dict.eng = "RB" -> RB_ordered(dict)
      [] OTHER -> TRUE

(***************************************************************************)
(* C27: after every call each tree engine holds a binary                   *)
(* search tree with unique keys: in every node the keys of the left        *)
(* subtree are smaller and those of the right subtree larger than the key  *)
(* of the node.                                                            *)
(***************************************************************************)
C27_SearchTree == \A i \in DOMAIN dicts : Ordered(dicts[i])

\* The root of an AVL tree of the keys 1, 2, 3 was removed: it had two
\* children, and the entry of its successor 3 took its place.
C27_Witness ==
    /\ last.op = "remove"
    /\ last.had
    /\ last.key = 2
    /\ dicts[last.on].eng = "AVL"
    /\ dicts[last.on].size_m = 2
    /\ dicts[last.on].root.key[1] = 3
    /\ dicts[last.on].root.left # nullptr
    /\ dicts[last.on].root.left.key[1] = 1

\* The same removal in a red-black tree that a rotation had shaped.
C27_WitnessRB ==
    /\ last.op = "remove"
    /\ last.had
    /\ last.key = 2
    /\ dicts[last.on].eng = "RB"
    /\ dicts[last.on].size_m = 2
    /\ dicts[last.on].h[dicts[last.on].root].key[1] = 3
    /\ Left(dicts[last.on], dicts[last.on].root) # nil

\* The nodes of m that hold x as a child.
RB_owners(m, x) == {y \in m.live : x \in RB_children(m, y)}

\* Every node of the heap of m is the root or the child of exactly one node,
\* and the root can reach it.
RB_owned(m) ==
    /\ m.live = RB_nodes(m)
    /\ \A x \in m.live :
         IF x = m.root THEN RB_owners(m, x) = {} ELSE Cardinality(RB_owners(m, x)) = 1

(***************************************************************************)
(* C28: after every insert, erase, update and operator[] on a red-black    *)
(* tree, whether the key was present or not, every node that was allocated *)
(* and not freed is the sentinel or is reached from the root and owned by  *)
(* exactly one parent: the call leaves no node allocated outside the tree. *)
(***************************************************************************)
C28_NoNodeOutside ==
    [][((Step("insert") \/ Step("remove") \/ Step("update") \/ Step("index"))
          /\ Pre.eng = "RB" /\ "leaked" \in DOMAIN Pre)
         => /\ last'.err \in {"none", "out_of_range"}
            /\ Post.leaked = Pre.leaked
            /\ RB_owned(Post)]_vars

\* The number of stored elements of q that equal v.
PQ_count(q, v) == Cardinality({n \in 1..q.heapSize : PQ_has(q, n) /\ PQ_at(q, n) = v})

\* No element has a higher priority than its parent.
PQ_heap(q) ==
    /\ Len(q.m_vec) = q.heapSize + 1
    /\ \A n \in 2..q.heapSize : ~PQ_compare(PQ_at(q, PQ_parent(n)), PQ_at(q, n))

\* No stored element exceeds v.
PQ_highest(q, v) == \A n \in 1..q.heapSize : ~PQ_compare(v, PQ_at(q, n))

(***************************************************************************)
(* C29: after every push, pop and remove(index) with 1 <= index <= size()  *)
(* the stored elements form a heap; top() and pop() yield an element that  *)
(* no stored element exceeds; the call changes the stored multiset by the  *)
(* one element pushed, popped or removed, and reads and writes no position *)
(* outside the stored elements (the call does not end in a fault).         *)
(***************************************************************************)
C29_HeapKept ==
    [][/\ Step("push") =>
            /\ last'.err = "none"
            /\ PQ_heap(Post)
            /\ \A v \in vals : PQ_count(Post, v) = PQ_count(Pre, v) + (IF v = last'.arg THEN 1 ELSE 0)
       /\ (Step("pop") /\ Pre.heapSize > 0) =>
            /\ last'.err = "none"
            /\ PQ_heap(Post)
            /\ PQ_highest(Pre, last'.value[1])
            /\ \A v \in vals :
                 PQ_count(Post, v) = PQ_count(Pre, v) - (IF v = last'.value[1] THEN 1 ELSE 0)
       /\ (Step("top") /\ Pre.heapSize > 0) =>
            /\ last'.err = "none"
            /\ PQ_highest(Pre, last'.value[1])
            /\ Post = Pre
       /\ (Step("remove") /\ last'.arg \in 1..Pre.heapSize) =>
            /\ last'.err = "none"
            /\ PQ_heap(Post)
            /\ \A v \in vals :
                 PQ_count(Post, v) =
                   PQ_count(Pre, v) - (IF v = PQ_at(Pre, last'.arg) THEN 1 ELSE 0)]_vars

(***************************************************************************)
(* C30: after clear() the queue is empty and behaves like a newly          *)
(* constructed one: push(v) on it makes size() 1 and top() return v, and   *)
(* every later top() and pop() returns an element that no stored element   *)
(* exceeds.                                                                *)
(***************************************************************************)
C30_ClearedAsNew ==
    [][/\ Step("clear") => (last'.err = "none" /\ Post.heapSize = 0)
       /\ Step("push") => (last'.err = "none" /\ Post.heapSize = Pre.heapSize + 1)
       /\ (Step("top") /\ Pre.heapSize > 0) =>
            /\ last'.err = "none"
            /\ PQ_count(Pre, last'.value[1]) > 0
            /\ PQ_highest(Pre, last'.value[1])
       /\ (Step("pop") /\ Pre.heapSize > 0) =>
            /\ last'.err = "none"
            /\ PQ_count(Pre, last'.value[1]) > 0
            /\ PQ_highest(Pre, last'.value[1])
            /\ Post.heapSize = Pre.heapSize - 1]_vars

====
